---- MODULE Spec2Model ----
(***************************************************************************)
(* Risk-and-oracle core of the GME-PERP market: OracleAdapter.sol,         *)
(* RiskManager.sol and CoreWriter.sol modelled as one state machine.  Each *)
(* external call of a contract is one action; a reverted call leaves the   *)
(* contract state untouched and only records its error in `result`.        *)
(***************************************************************************)
EXTENDS Integers, Sequences, FiniteSets, TLC

VARIABLES
    now,                          \* block.timestamp
    circuitBreakerActive,         \* OracleAdapter.circuitBreakerActive
    lastCircuitBreakerTimestamp,  \* OracleAdapter.lastCircuitBreakerTimestamp
    priceHistory,                 \* OracleAdapter.priceHistory
    keeper, admin,                \* OracleAdapter roles
    rmAdmin, rmKeeper,            \* RiskManager roles
    marketConfig,                 \* RiskManager.marketConfig
    leverageTiers,                \* RiskManager.leverageTiers
    positions,                    \* RiskManager.positions
    liquidators,                  \* RiskManager.liquidators (the addresses mapped to true)
    totalOpenInterest,            \* RiskManager.totalOpenInterest
    totalLongOpenInterest,        \* RiskManager.totalLongOpenInterest
    totalShortOpenInterest,       \* RiskManager.totalShortOpenInterest
    lastFundingUpdate,            \* RiskManager.lastFundingUpdate
    authorizedCallers,            \* CoreWriterImplementation.authorizedCallers
    cwAdmin,                      \* CoreWriterImplementation.admin
    marketStates,                 \* CoreWriterImplementation.marketStates[marketId]
    result                        \* outcome of the last call: op, caller, err, events

vars == <<now, circuitBreakerActive, lastCircuitBreakerTimestamp, priceHistory,
          keeper, admin, rmAdmin, rmKeeper, marketConfig, leverageTiers, positions,
          liquidators, totalOpenInterest, totalLongOpenInterest, totalShortOpenInterest,
          lastFundingUpdate, authorizedCallers, cwAdmin, marketStates, result>>

oracleVars == <<circuitBreakerActive, lastCircuitBreakerTimestamp, priceHistory, keeper, admin>>
openInterestVars == <<totalOpenInterest, totalLongOpenInterest, totalShortOpenInterest>>
bookVars   == <<leverageTiers, positions, liquidators, openInterestVars>>
riskVars   == <<rmAdmin, rmKeeper, lastFundingUpdate, marketConfig, bookVars>>
writerVars == <<authorizedCallers, cwAdmin, marketStates>>

----------------------------------------------------------------------------
(* Program constants *)

MAX_PRICE_STALENESS   == 10
MAX_DEVIATION_PERCENT == 1000
TWAP_WINDOW           == 300
COOL_DOWN             == 300
DEVIATION_TWAP_WINDOW == 60
MIN_DEVIATION_HISTORY == 5
BASIS_POINTS          == 10000
EARNINGS_MODE_LEVERAGE_REDUCTION == 5000
MAX_FUNDING_RATE      == 100
DEFAULT_FUNDING_RATE  == 10
FUNDING_INTERVAL      == 3600

(* Model bounds *)

\* priceHistory capacity; 60 in the source, scaled so that a full history is reachable
MAX_HISTORY_LENGTH == 5
\* decimal places of the normalized price; 8 in the source, scaled so that
\* deviation * 10000 stays inside the checker's integers
PRICE_DECIMAL_PLACES == 2
\* block.timestamp at deployment
StartTime     == 10000
\* short time steps add up to at most this many seconds after each long step
MaxSmallTicks == 4
\* number of one-second blocks of the price scenario
ScenarioLength == 5
\* positions are opened while long plus short open interest stays within this
MaxOpenInterest == 300

----------------------------------------------------------------------------
(* Addresses *)

ORACLE_ADAPTER == "oracleAdapter"
RISK_MANAGER   == "riskManager"
Users          == {"admin", "keeper", "user"}

(* Errors: the revert strings of the source under the names of the error taxonomy *)

NoError                 == "ok"
Unauthorized            == "Unauthorized"
OnlyKeeper              == "Only keeper can call"
OnlyAdmin               == "Only admin can call"
CircuitBreakerActive    == "Circuit breaker is active"
CircuitBreakerNotActive == "Not active"
AlreadyActive           == "Already active"
CoolDownNotElapsed      == "Must wait 5 minutes"
InsufficientFee         == "Insufficient fee"
StalePrice              == "Price too stale"
NoPriceHistory          == "No price history"
InsufficientHistory     == "Insufficient price data"
InvalidDuration         == "Invalid duration"
InvalidPrices           == "Invalid prices"
LedgerWriteFailed       == "HyperCore call failed"
RateTooHigh             == "Rate too high"
IMBelowMM               == "IM < MM"
InvalidSizeLimits       == "Invalid size limits"
AbiDecodeFailed         == "abi.decode reverted"
OnlyRiskKeeper          == "Only keeper"
TooSoon                 == "Too soon"
OnlyRiskAdmin           == "Only admin"
OnlyLiquidator          == "Only liquidator"
MarketPaused            == "Market paused"
NoPosition              == "No position"
PositionHealthy         == "Position healthy"
EmptyTiers              == "Empty tiers"
InvalidLeverage         == "Invalid leverage"
InvalidIM               == "Invalid IM"
MMOverIM                == "MM > IM"
ArithmeticPanic         == "Panic"

----------------------------------------------------------------------------
(* Integer helpers: Solidity 0.8 arithmetic *)

RECURSIVE Pow10(_)
Pow10(n) == IF n = 0 THEN 1 ELSE 10 * Pow10(n - 1)

Abs(x) == IF x < 0 THEN -x ELSE x

\* signed division truncating toward zero
TruncDiv(a, b) ==
    IF (a >= 0) = (b > 0) THEN Abs(a) \div Abs(b) ELSE -(Abs(a) \div Abs(b))

TARGET_EXPO    == -PRICE_DECIMAL_PLACES
PRICE_DECIMALS == Pow10(PRICE_DECIMAL_PLACES)

----------------------------------------------------------------------------
(* OracleAdapter: pure and view functions *)

\* _normalizePrice with a division that rounds down
NormalizePrice_RoundingDown(price, expo) ==
    LET expoDiff == TARGET_EXPO - expo IN
    IF expoDiff > 0 THEN price \div Pow10(expoDiff)
    ELSE IF expoDiff < 0 THEN price * Pow10(-expoDiff)
    ELSE price

\* _normalizePrice: rescale a Pyth price with exponent expo to TARGET_EXPO
NormalizePrice(price, expo) ==
    LET expoDiff == TARGET_EXPO - expo IN
    IF expoDiff > 0 THEN TruncDiv(price, Pow10(expoDiff))
    ELSE IF expoDiff < 0 THEN price * Pow10(-expoDiff)
    ELSE price

\* validatePriceFreshness: block.timestamp - publishTime <= MAX_PRICE_STALENESS;
\* the unsigned subtraction panics when publishTime lies in the future
ValidatePriceFreshness(publishTime, t) ==
    IF publishTime > t THEN [err |-> ArithmeticPanic, isFresh |-> FALSE]
    ELSE [err |-> NoError, isFresh |-> (t - publishTime <= MAX_PRICE_STALENESS)]

\* the loop of calculateTWAP: walks from the newest entry (index i) downwards
\* and stops at the first point older than cutoffTime
RECURSIVE TwapLoop(_, _, _, _, _)
TwapLoop(h, i, cutoffTime, weightedSum, totalWeight) ==
    IF i = 0 THEN [weightedSum |-> weightedSum, totalWeight |-> totalWeight]
    ELSE IF h[i].timestamp < cutoffTime
         THEN [weightedSum |-> weightedSum, totalWeight |-> totalWeight]
         ELSE TwapLoop(h, i - 1, cutoffTime, weightedSum + h[i].price * 1, totalWeight + 1)

\* calculateTWAP(duration) at block time t over history h
CalculateTWAP(h, duration, t) ==
    IF ~(duration > 0 /\ duration <= TWAP_WINDOW) THEN [err |-> InvalidDuration, twapPrice |-> 0]
    ELSE IF ~(Len(h) > 0) THEN [err |-> NoPriceHistory, twapPrice |-> 0]
    ELSE IF t < duration THEN [err |-> ArithmeticPanic, twapPrice |-> 0]
    ELSE LET acc == TwapLoop(h, Len(h), t - duration, 0, 0) IN
         IF ~(acc.totalWeight > 0) THEN [err |-> InsufficientHistory, twapPrice |-> 0]
         ELSE [err |-> NoError, twapPrice |-> acc.weightedSum \div acc.totalWeight]

CheckPriceDeviation_ZeroSpot(spotPrice, twapPrice) ==
    IF ~(spotPrice >= 0 /\ twapPrice > 0)
    THEN [err |-> InvalidPrices, isDeviated |-> FALSE, deviationBps |-> 0]
    ELSE LET deviation == IF spotPrice > twapPrice THEN spotPrice - twapPrice
                          ELSE twapPrice - spotPrice
             deviationBps == (deviation * 10000) \div twapPrice
         IN [err |-> NoError, isDeviated |-> deviationBps > MAX_DEVIATION_PERCENT,
             deviationBps |-> deviationBps]

CheckPriceDeviation_Doubled(spotPrice, twapPrice) ==
    IF ~(spotPrice > 0 /\ twapPrice > 0)
    THEN [err |-> InvalidPrices, isDeviated |-> FALSE, deviationBps |-> 0]
    ELSE LET deviation == IF spotPrice > twapPrice THEN spotPrice - twapPrice
                          ELSE twapPrice - spotPrice
             deviationBps == (deviation * 10000) \div twapPrice
         IN [err |-> NoError, isDeviated |-> deviationBps > MAX_DEVIATION_PERCENT * 2,
             deviationBps |-> deviationBps]

\* checkPriceDeviation(spotPrice, twapPrice)
CheckPriceDeviation(spotPrice, twapPrice) ==
    IF ~(spotPrice > 0 /\ twapPrice > 0)
    THEN [err |-> InvalidPrices, isDeviated |-> FALSE, deviationBps |-> 0]
    ELSE LET deviation == IF spotPrice > twapPrice THEN spotPrice - twapPrice
                          ELSE twapPrice - spotPrice
             deviationBps == (deviation * 10000) \div twapPrice
         IN [err |-> NoError, isDeviated |-> deviationBps > MAX_DEVIATION_PERCENT,
             deviationBps |-> deviationBps]

----------------------------------------------------------------------------
(* OracleAdapter._validateAndStorePrice: history maintenance *)

\* first trim loop: for i < length - MAX_HISTORY_LENGTH, priceHistory[i] = priceHistory[i + 1]
RECURSIVE ShiftLoop(_, _, _)
ShiftLoop(h, i, n) ==
    IF i < n THEN ShiftLoop([h EXCEPT ![i + 1] = h[i + 2]], i + 1, n) ELSE h

\* second trim loop: for i < length - MAX_HISTORY_LENGTH (length re-read), priceHistory.pop()
PopLoop_Skipped(h, i) == h
RECURSIVE PopLoop(_, _)
PopLoop(h, i) ==
    IF i < Len(h) - MAX_HISTORY_LENGTH THEN PopLoop(SubSeq(h, 1, Len(h) - 1), i + 1) ELSE h

\* "Trim history if too long"
TrimHistory(h) ==
    IF Len(h) > MAX_HISTORY_LENGTH
    THEN PopLoop(ShiftLoop(h, 0, Len(h) - MAX_HISTORY_LENGTH), 0)
    ELSE h

\* push of the new point followed by the trim
StorePrice(h, point) == TrimHistory(Append(h, point))

\* "Auto-trigger circuit breaker on extreme deviation"
ExtremeDeviation_Tripled(deviationBps) == deviationBps > MAX_DEVIATION_PERCENT * 3
ExtremeDeviation(deviationBps) == deviationBps > MAX_DEVIATION_PERCENT * 2

\* _validateAndStorePrice up to (not including) the call of riskManager.pauseMarket:
\* the history after the push and trim, the events, and whether the breaker trips
ValidateAndStorePrice(h, pythPrice, t) ==
    LET fresh           == ValidatePriceFreshness(pythPrice.publishTime, t)
        normalizedPrice == NormalizePrice(pythPrice.price, pythPrice.expo)
        normalizedConf  == NormalizePrice(pythPrice.conf, pythPrice.expo)
        point           == [price |-> normalizedPrice, conf |-> normalizedConf,
                            timestamp |-> pythPrice.publishTime]
        stored          == StorePrice(h, point)
        twap            == CalculateTWAP(stored, DEVIATION_TWAP_WINDOW, t)
        dev             == CheckPriceDeviation(normalizedPrice, twap.twapPrice)
        updated         == [name |-> "PriceUpdated", price |-> normalizedPrice,
                            timestamp |-> pythPrice.publishTime]
        detected        == [name |-> "PriceDeviationDetected", price |-> normalizedPrice,
                            twap |-> twap.twapPrice, deviation |-> dev.deviationBps]
        quiet           == [err |-> NoError, history |-> stored, trip |-> FALSE,
                            events |-> <<updated>>]
    IN  IF fresh.err # NoError THEN [quiet EXCEPT !.err = fresh.err]
        ELSE IF ~fresh.isFresh THEN [quiet EXCEPT !.err = StalePrice]
        ELSE IF ~(Len(stored) >= MIN_DEVIATION_HISTORY) THEN quiet
        ELSE IF twap.err # NoError THEN [quiet EXCEPT !.err = twap.err]
        ELSE IF dev.err # NoError THEN [quiet EXCEPT !.err = dev.err]
        ELSE IF ~dev.isDeviated THEN quiet
        ELSE IF ExtremeDeviation(dev.deviationBps)
             THEN [quiet EXCEPT !.trip = TRUE, !.events = <<detected, updated>>]
             ELSE [quiet EXCEPT !.events = <<detected, updated>>]

----------------------------------------------------------------------------
(* CoreWriterImplementation and RiskManager: pause / resume *)

\* CoreWriterImplementation.pauseMarket / resumeMarket called by sender:
\* onlyAuthorized, then _callHyperCore, whose low-level call returns hyperCoreOk
WriterPush(sender, hyperCoreOk) ==
    IF ~(sender \in authorizedCallers \/ sender = cwAdmin) THEN Unauthorized
    ELSE IF ~hyperCoreOk THEN LedgerWriteFailed
    ELSE NoError

\* marketStates[marketId] before anything is written to it; lastUpdateTime, which
\* no function reads, is left out
NoMarketState ==
    [isPaused |-> FALSE, isEarningsMode |-> FALSE, maxLeverage |-> 0, initialMargin |-> 0,
     maintenanceMargin |-> 0, makerFee |-> 0, takerFee |-> 0, fundingRate |-> 0,
     maxPositionSize |-> 0, minOrderSize |-> 0]

\* the number of 32-byte words of an ABI-encoded MarketState
MARKET_STATE_WORDS == 11

\* abi.encode of a bool
EncodeBool(b) == IF b THEN 1 ELSE 0

\* abi.encode(marketConfig): the seven fields of MarketConfig, one word each
EncodeMarketConfig(config) ==
    <<EncodeBool(config.isPaused), EncodeBool(config.isEarningsMode), config.maxPositionSize,
      config.minOrderSize, config.makerFee, config.takerFee, config.fundingRate>>

\* abi.decode(config, (MarketState)): reverts when the data is shorter than the
\* struct or a bool word is neither 0 nor 1
DecodeMarketState(words) ==
    IF Len(words) < MARKET_STATE_WORDS \/ words[1] \notin {0, 1} \/ words[2] \notin {0, 1}
    THEN [err |-> AbiDecodeFailed, state |-> NoMarketState]
    ELSE [err |-> NoError,
          state |-> [isPaused |-> words[1] = 1, isEarningsMode |-> words[2] = 1,
                     maxLeverage |-> words[3], initialMargin |-> words[4],
                     maintenanceMargin |-> words[5], makerFee |-> words[6],
                     takerFee |-> words[7], fundingRate |-> words[8],
                     maxPositionSize |-> words[9], minOrderSize |-> words[10]]]

\* CoreWriterImplementation.setFundingRate(marketId, rate) called by sender
WriterSetFundingRate(sender, rate, hyperCoreOk) ==
    IF ~(sender \in authorizedCallers \/ sender = cwAdmin) THEN Unauthorized
    ELSE IF ~(rate <= 100) THEN RateTooHigh
    ELSE IF ~hyperCoreOk THEN LedgerWriteFailed
    ELSE NoError

\* updateMarketConfig taking the encoded MarketConfig as it comes
WriterUpdateMarketConfig_AnyLength(sender, config, hyperCoreOk) ==
    IF ~(sender \in authorizedCallers \/ sender = cwAdmin) THEN Unauthorized
    ELSE IF ~hyperCoreOk THEN LedgerWriteFailed
    ELSE NoError

\* CoreWriterImplementation.updateMarketConfig(marketId, config) called by sender
WriterUpdateMarketConfig(sender, config, hyperCoreOk) ==
    LET decoded  == DecodeMarketState(config)
        newState == decoded.state
    IN  IF ~(sender \in authorizedCallers \/ sender = cwAdmin) THEN Unauthorized
        ELSE IF decoded.err # NoError THEN decoded.err
        ELSE IF ~(newState.maxLeverage > 0 /\ newState.maxLeverage <= 100000)
             THEN InvalidLeverage
        ELSE IF ~(newState.initialMargin >= newState.maintenanceMargin) THEN IMBelowMM
        ELSE IF ~(newState.maxPositionSize > newState.minOrderSize) THEN InvalidSizeLimits
        ELSE IF ~hyperCoreOk THEN LedgerWriteFailed
        ELSE NoError

\* no call of the writer was made
NotPushed == "not pushed"

\* a call of the writer or of the risk manager from another contract: a revert
\* of the callee reverts the caller with the callee's error
CallReverts_Swallowed(calleeErr) == NoError
CallReverts(calleeErr) == calleeErr

\* RiskManager.pauseMarket called by sender: what its call of the writer returned
PauseMarketPush(sender, hyperCoreOk) ==
    IF ~(sender = rmAdmin \/ sender = rmKeeper \/ sender = ORACLE_ADAPTER) THEN NotPushed
    ELSE WriterPush(RISK_MANAGER, hyperCoreOk)

\* RiskManager.pauseMarket called by sender: the error it reverts with, or NoError
PauseMarketErr(sender, hyperCoreOk) ==
    IF ~(sender = rmAdmin \/ sender = rmKeeper \/ sender = ORACLE_ADAPTER) THEN Unauthorized
    ELSE CallReverts(WriterPush(RISK_MANAGER, hyperCoreOk))

\* RiskManager.resumeMarket called by sender: what its call of the writer returned
ResumeMarketPush(sender, hyperCoreOk) ==
    IF ~(sender = rmAdmin \/ sender = ORACLE_ADAPTER) THEN NotPushed
    ELSE WriterPush(RISK_MANAGER, hyperCoreOk)

\* RiskManager.resumeMarket called by sender: the error it reverts with, or NoError
ResumeMarketErr(sender, hyperCoreOk) ==
    IF ~(sender = rmAdmin \/ sender = ORACLE_ADAPTER) THEN Unauthorized
    ELSE CallReverts(WriterPush(RISK_MANAGER, hyperCoreOk))

\* marketStates[marketId] after a call of the writer that returned push and
\* would record written
Recorded(push, written) == IF push = NoError THEN written ELSE marketStates

----------------------------------------------------------------------------
(* OracleAdapter.getGMEPrice *)

\* getGMEPrice() at block time t when Pyth holds pythPrice for the feed
GetGMEPrice(pythPrice, t) ==
    LET fresh == ValidatePriceFreshness(pythPrice.publishTime, t)
        none  == [err |-> NoError, price |-> 0, confidence |-> 0, timestamp |-> 0]
    IN  IF fresh.err # NoError THEN [none EXCEPT !.err = fresh.err]
        ELSE IF ~fresh.isFresh THEN [none EXCEPT !.err = StalePrice]
        ELSE [err |-> NoError,
              price |-> NormalizePrice(pythPrice.price, pythPrice.expo),
              confidence |-> NormalizePrice(pythPrice.conf, pythPrice.expo),
              timestamp |-> pythPrice.publishTime]

----------------------------------------------------------------------------
(* RiskManager: tiers, positions, margin math *)

\* type(uint256).max, represented by the largest integer of the model checker
UINT256_MAX == ((2 ^ 30) - 1) * 2 + 1

LeverageTier(maxPositionSize, maxLeverage, initialMargin, maintenanceMargin) ==
    [maxPositionSize |-> maxPositionSize, maxLeverage |-> maxLeverage,
     initialMargin |-> initialMargin, maintenanceMargin |-> maintenanceMargin]

\* the four tiers pushed by _initializeDefaultTiers
DefaultTiers ==
    <<LeverageTier(10000 * PRICE_DECIMALS, 2000, 500, 250),
      LeverageTier(50000 * PRICE_DECIMALS, 1500, 667, 333),
      LeverageTier(100000 * PRICE_DECIMALS, 1000, 1000, 500),
      LeverageTier(500000 * PRICE_DECIMALS, 500, 2000, 1000)>>

\* the addresses that trade; every other address keeps the zero position
Traders == {"alice", "bob"}

\* Position with the fields the contract reads (trader, lastUpdateTime and
\* fundingPaid are never read)
Position(size, avgEntryPrice, margin) ==
    [size |-> size, avgEntryPrice |-> avgEntryPrice, margin |-> margin]

\* a deleted (or never written) entry of the positions mapping
EmptyPosition == Position(0, 0, 0)

\* _getLeverageTier: the loop from index i on
RECURSIVE GetLeverageTierLoop(_, _, _)
GetLeverageTierLoop(tiers, i, positionSize) ==
    IF i > Len(tiers) THEN tiers[Len(tiers)]
    ELSE IF positionSize <= tiers[i].maxPositionSize THEN tiers[i]
    ELSE GetLeverageTierLoop(tiers, i + 1, positionSize)

\* _getLeverageTier(positionSize) with < in place of <=
GetLeverageTier_Strict(tiers, positionSize) ==
    LET below == {i \in 1..Len(tiers) : positionSize < tiers[i].maxPositionSize} IN
    IF below = {} THEN tiers[Len(tiers)]
    ELSE tiers[CHOOSE i \in below : \A j \in below : i <= j]

\* _getLeverageTier(positionSize)
GetLeverageTier(tiers, positionSize) == GetLeverageTierLoop(tiers, 1, positionSize)

\* _calculatePnl(pos, markPrice): the difference of the two unsigned prices is
\* taken before the conversion to int256 and panics when it is negative
CalculatePnl(pos, markPrice) ==
    IF pos.size > 0
    THEN IF markPrice < pos.avgEntryPrice \/ pos.avgEntryPrice = 0
         THEN [err |-> ArithmeticPanic, pnl |-> 0]
         ELSE [err |-> NoError,
               pnl |-> TruncDiv(pos.size * (markPrice - pos.avgEntryPrice), pos.avgEntryPrice)]
    ELSE IF pos.avgEntryPrice < markPrice \/ pos.avgEntryPrice = 0
         THEN [err |-> ArithmeticPanic, pnl |-> 0]
         ELSE [err |-> NoError,
               pnl |-> TruncDiv((-pos.size) * (pos.avgEntryPrice - markPrice),
                                pos.avgEntryPrice)]

\* the margin computation of checkPositionHealth for a nonzero position at markPrice
HealthAt(pos, tiers, markPrice) ==
    LET pnl    == CalculatePnl(pos, markPrice)
        equity == IF pnl.pnl >= 0 THEN pos.margin + pnl.pnl
                  ELSE IF pos.margin > -pnl.pnl THEN pos.margin - (-pnl.pnl)
                  ELSE 0
        notionalValue == (Abs(pos.size) * markPrice) \div PRICE_DECIMALS
        tier   == GetLeverageTier(tiers, notionalValue)
        maintenanceRequired == (notionalValue * tier.maintenanceMargin) \div BASIS_POINTS
    IN  IF pnl.err # NoError THEN [err |-> pnl.err, isHealthy |-> FALSE, healthFactor |-> 0]
        ELSE [err |-> NoError,
              isHealthy |-> equity >= maintenanceRequired,
              healthFactor |-> IF maintenanceRequired > 0
                               THEN (equity * BASIS_POINTS) \div maintenanceRequired
                               ELSE UINT256_MAX]

\* checkPositionHealth(account), pos being positions[account]: the oracle is read
\* only for a nonzero position
CheckPositionHealth_OracleFirst(pos, tiers, pythPrice, t) ==
    LET oracle == GetGMEPrice(pythPrice, t) IN
    IF oracle.err # NoError THEN [err |-> oracle.err, isHealthy |-> FALSE, healthFactor |-> 0]
    ELSE IF pos.size = 0 THEN [err |-> NoError, isHealthy |-> TRUE, healthFactor |-> UINT256_MAX]
    ELSE HealthAt(pos, tiers, oracle.price)
CheckPositionHealth(pos, tiers, pythPrice, t) ==
    LET oracle == GetGMEPrice(pythPrice, t) IN
    IF pos.size = 0 THEN [err |-> NoError, isHealthy |-> TRUE, healthFactor |-> UINT256_MAX]
    ELSE IF oracle.err # NoError
         THEN [err |-> oracle.err, isHealthy |-> FALSE, healthFactor |-> 0]
    ELSE HealthAt(pos, tiers, oracle.price)

\* liquidationPrice(position)
LiquidationPrice_PerUnitOfEntry(position) ==
    IF position.size = 0 THEN 0
    ELSE LET marginPerUnit == (position.margin * position.avgEntryPrice) \div Abs(position.size) IN
         IF position.size > 0
         THEN IF position.avgEntryPrice > marginPerUnit
              THEN position.avgEntryPrice - marginPerUnit ELSE 0
         ELSE position.avgEntryPrice + marginPerUnit
LiquidationPrice(position) ==
    IF position.size = 0 THEN 0
    ELSE LET marginPerUnit == (position.margin * PRICE_DECIMALS) \div Abs(position.size) IN
         IF position.size > 0
         THEN IF position.avgEntryPrice > marginPerUnit
              THEN position.avgEntryPrice - marginPerUnit ELSE 0
         ELSE position.avgEntryPrice + marginPerUnit

\* _updateOpenInterest(sizeDelta): the three totals afterwards
UpdateOpenInterest_Unsigned(sizeDelta) ==
    <<totalOpenInterest + Abs(sizeDelta),
      IF sizeDelta > 0 THEN totalLongOpenInterest + sizeDelta ELSE totalLongOpenInterest,
      IF sizeDelta > 0 THEN totalShortOpenInterest ELSE totalShortOpenInterest + (-sizeDelta)>>
UpdateOpenInterest(sizeDelta) ==
    <<totalOpenInterest + sizeDelta,
      IF sizeDelta > 0 THEN totalLongOpenInterest + sizeDelta ELSE totalLongOpenInterest,
      IF sizeDelta > 0 THEN totalShortOpenInterest ELSE totalShortOpenInterest + (-sizeDelta)>>

\* _applyEarningsModeLeverage: every tier's maxLeverage scaled by 5000 / 10000 and
\* its initialMargin by 10000 / 5000
ApplyEarningsModeLeverage(tiers) ==
    [i \in 1..Len(tiers) |->
        [tiers[i] EXCEPT
            !.maxLeverage = (@ * EARNINGS_MODE_LEVERAGE_REDUCTION) \div BASIS_POINTS,
            !.initialMargin = (@ * BASIS_POINTS) \div EARNINGS_MODE_LEVERAGE_REDUCTION]]

\* _restoreNormalLeverage: _initializeDefaultTiers pushes the four default tiers
\* onto the table as it is
RestoreNormalLeverage(tiers) == tiers \o DefaultTiers

\* updateFundingRate: the rate computed from long and short open interest
FundingRate_Halved(long, short) ==
    IF long + short = 0 THEN DEFAULT_FUNDING_RATE
    ELSE Abs(TruncDiv((long - short) * BASIS_POINTS, long + short)) \div 200
FundingRate(long, short) ==
    LET skew    == long - short
        totalOI == long + short
    IN  IF totalOI = 0 THEN DEFAULT_FUNDING_RATE
        ELSE LET skewRatio == TruncDiv(skew * BASIS_POINTS, totalOI)
                 newRate   == Abs(skewRatio) \div 100
             IN  IF newRate > MAX_FUNDING_RATE THEN MAX_FUNDING_RATE ELSE newRate

\* updateLeverageTiers: the first failing require of the loop from index i on
RECURSIVE TiersError_NoMarginCheck(_, _)
TiersError_NoMarginCheck(tiers, i) ==
    IF i > Len(tiers) THEN NoError
    ELSE IF ~(tiers[i].maxLeverage > 0) THEN InvalidLeverage
    ELSE IF ~(tiers[i].initialMargin <= BASIS_POINTS) THEN InvalidIM
    ELSE TiersError_NoMarginCheck(tiers, i + 1)
TiersError_FirstTierOnly(tiers, i) ==
    IF i > Len(tiers) \/ i > 1 THEN NoError
    ELSE IF ~(tiers[i].maxLeverage > 0) THEN InvalidLeverage
    ELSE IF ~(tiers[i].initialMargin <= BASIS_POINTS) THEN InvalidIM
    ELSE IF ~(tiers[i].maintenanceMargin <= tiers[i].initialMargin) THEN MMOverIM
    ELSE NoError
RECURSIVE TiersError_NoLeverageCheck(_, _)
TiersError_NoLeverageCheck(tiers, i) ==
    IF i > Len(tiers) THEN NoError
    ELSE IF ~(tiers[i].initialMargin <= BASIS_POINTS) THEN InvalidIM
    ELSE IF ~(tiers[i].maintenanceMargin <= tiers[i].initialMargin) THEN MMOverIM
    ELSE TiersError_NoLeverageCheck(tiers, i + 1)
RECURSIVE TiersError_NoIMCheck(_, _)
TiersError_NoIMCheck(tiers, i) ==
    IF i > Len(tiers) THEN NoError
    ELSE IF ~(tiers[i].maxLeverage > 0) THEN InvalidLeverage
    ELSE IF ~(tiers[i].maintenanceMargin <= tiers[i].initialMargin) THEN MMOverIM
    ELSE TiersError_NoIMCheck(tiers, i + 1)
RECURSIVE TiersError(_, _)
TiersError(tiers, i) ==
    IF i > Len(tiers) THEN NoError
    ELSE IF ~(tiers[i].maxLeverage > 0) THEN InvalidLeverage
    ELSE IF ~(tiers[i].initialMargin <= BASIS_POINTS) THEN InvalidIM
    ELSE IF ~(tiers[i].maintenanceMargin <= tiers[i].initialMargin) THEN MMOverIM
    ELSE TiersError(tiers, i + 1)

----------------------------------------------------------------------------
(* Outcomes *)

Outcome(op, caller, err, events) ==
    [op |-> op, caller |-> caller, err |-> err, events |-> events]

\* the outcome of a view or pure function: its arguments and what it returned
Returned(op, caller, err, args, ret) ==
    [op |-> op, caller |-> caller, err |-> err, events |-> <<>>, args |-> args, ret |-> ret]

\* the outcome of a function that writes to the ledger: push is what its call of
\* the writer returned
PushOutcome(op, caller, err, events, push) ==
    [op |-> op, caller |-> caller, err |-> err, events |-> events, push |-> push]

\* a call reverted in a block of timestamp t: no contract state changes
RevertAt(t, op, caller, err) ==
    /\ result' = Outcome(op, caller, err, <<>>)
    /\ now' = t
    /\ UNCHANGED <<oracleVars, riskVars, writerVars>>

\* a call reverted in the current block
Revert(op, caller, err) == RevertAt(now, op, caller, err)

\* the outcome of a function that writes to the ledger and takes an argument
PushReturned(op, caller, err, events, push, args) ==
    [op |-> op, caller |-> caller, err |-> err, events |-> events, push |-> push,
     args |-> args]

\* a revert that leaves the pause flag set when the call had reached the writer
RevertPushAt_KeepsPause(t, op, caller, err, push) ==
    /\ result' = PushOutcome(op, caller, err, <<>>, push)
    /\ now' = t
    /\ marketConfig' = IF push # NotPushed THEN [marketConfig EXCEPT !.isPaused = TRUE]
                       ELSE marketConfig
    /\ UNCHANGED <<oracleVars, rmAdmin, rmKeeper, lastFundingUpdate, bookVars, writerVars>>

\* a function that writes to the ledger reverted in a block of timestamp t
RevertPushAt(t, op, caller, err, push) ==
    /\ result' = PushOutcome(op, caller, err, <<>>, push)
    /\ now' = t
    /\ UNCHANGED <<oracleVars, riskVars, writerVars>>

\* a function that writes to the ledger reverted in the current block
RevertPush(op, caller, err, push) == RevertPushAt(now, op, caller, err, push)

Init ==
    /\ now = StartTime
    /\ circuitBreakerActive = FALSE
    /\ lastCircuitBreakerTimestamp = 0
    /\ priceHistory = <<>>
    /\ keeper = "keeper"
    /\ admin = "admin"
    /\ rmAdmin = "admin"
    /\ rmKeeper = "keeper"
    /\ marketConfig = [isPaused |-> FALSE, isEarningsMode |-> FALSE,
                       maxPositionSize |-> 1000000 * PRICE_DECIMALS,
                       minOrderSize |-> 10 * PRICE_DECIMALS,
                       makerFee |-> 0, takerFee |-> 50, fundingRate |-> 10]
    /\ leverageTiers = DefaultTiers
    /\ positions = [a \in Traders |-> EmptyPosition]
    /\ liquidators = {}
    /\ totalOpenInterest = 0
    /\ totalLongOpenInterest = 0
    /\ totalShortOpenInterest = 0
    /\ lastFundingUpdate = 0
    /\ authorizedCallers = {}
    /\ cwAdmin = "admin"
    /\ marketStates = NoMarketState
    /\ result = Outcome("constructor", "admin", NoError, <<>>)

----------------------------------------------------------------------------
(* Time *)

\* the model follows the chain for one cool-down and a few seconds
Horizon == StartTime + COOL_DOWN + MaxSmallTicks

\* the block timestamp advances by d seconds between two calls
Tick(d) ==
    /\ \/ d < COOL_DOWN /\ ((now - StartTime) % COOL_DOWN) + d <= MaxSmallTicks
       \/ d = COOL_DOWN
    /\ now + d <= Horizon
    /\ now' = now + d
    /\ UNCHANGED <<oracleVars, riskVars, writerVars, result>>

\* the model follows the funding of the market for one interval and a few seconds
FundingHorizon == StartTime + FUNDING_INTERVAL + MaxSmallTicks

\* the block timestamp advances between two funding updates, by a second or by
\* one second less than the funding interval
Wait(d) ==
    /\ \/ d = 1 /\ ((now - StartTime) % (FUNDING_INTERVAL - 1)) + d <= MaxSmallTicks
       \/ d = FUNDING_INTERVAL - 1
    /\ now + d <= FundingHorizon
    /\ now' = now + d
    /\ UNCHANGED <<oracleVars, riskVars, writerVars, result>>

----------------------------------------------------------------------------
(* OracleAdapter: modifiers and guards *)

onlyKeeper(sender) == sender = keeper

onlyAdmin_Anyone(sender) == TRUE
onlyAdmin(sender) == sender = admin

circuitBreakerNotActive_Ignored == TRUE
circuitBreakerNotActive == ~circuitBreakerActive

\* resetCircuitBreaker: block.timestamp >= lastCircuitBreakerTimestamp + 300
CoolDownElapsed_Ignored == TRUE
CoolDownElapsed == now >= lastCircuitBreakerTimestamp + COOL_DOWN

----------------------------------------------------------------------------
(* OracleAdapter: external functions *)

\* updatePriceAndValidate in a block of timestamp t: msg.sender = caller,
\* msg.value = value; the Pyth contract quotes fee and, after the update, reports
\* pythPrice for the feed
UpdatePriceAndValidateAt(t, caller, value, fee, pythPrice, hyperCoreOk) ==
    \E v \in {ValidateAndStorePrice(priceHistory, pythPrice, t)} :
    LET op   == "updatePriceAndValidate"
        pm   == PauseMarketErr(ORACLE_ADAPTER, hyperCoreOk)
        push == IF v.trip THEN PauseMarketPush(ORACLE_ADAPTER, hyperCoreOk) ELSE NotPushed
    IN  IF ~onlyKeeper(caller) THEN RevertPushAt(t, op, caller, OnlyKeeper, NotPushed)
        ELSE IF ~circuitBreakerNotActive
             THEN RevertPushAt(t, op, caller, CircuitBreakerActive, NotPushed)
        ELSE IF ~(value >= fee) THEN RevertPushAt(t, op, caller, InsufficientFee, NotPushed)
        ELSE IF v.err # NoError THEN RevertPushAt(t, op, caller, v.err, NotPushed)
        ELSE IF v.trip /\ CallReverts(pm) # NoError
             THEN RevertPushAt(t, op, caller, CallReverts(pm), push)
        ELSE /\ priceHistory' = v.history
             /\ circuitBreakerActive' = (circuitBreakerActive \/ v.trip)
             /\ lastCircuitBreakerTimestamp' =
                    IF v.trip THEN t ELSE lastCircuitBreakerTimestamp
             /\ marketConfig' = IF v.trip THEN [marketConfig EXCEPT !.isPaused = TRUE]
                                ELSE marketConfig
             /\ marketStates' = Recorded(push, [marketStates EXCEPT !.isPaused = TRUE])
             /\ result' = PushOutcome(op, caller, NoError,
                    IF v.trip
                    THEN <<v.events[1], [name |-> "MarketPaused"],
                           [name |-> "CircuitBreakerTriggered"], v.events[2]>>
                    ELSE v.events, push)
             /\ now' = t
             /\ UNCHANGED <<keeper, admin, rmAdmin, rmKeeper, lastFundingUpdate, bookVars,
                            authorizedCallers, cwAdmin>>

\* updatePriceAndValidate in the current block
UpdatePriceAndValidate(caller, value, fee, pythPrice, hyperCoreOk) ==
    UpdatePriceAndValidateAt(now, caller, value, fee, pythPrice, hyperCoreOk)

\* triggerCircuitBreaker(reason)
TriggerCircuitBreaker(caller, hyperCoreOk) ==
    LET op   == "triggerCircuitBreaker"
        pm   == PauseMarketErr(ORACLE_ADAPTER, hyperCoreOk)
        push == PauseMarketPush(ORACLE_ADAPTER, hyperCoreOk)
    IN  IF ~onlyKeeper(caller) THEN RevertPush(op, caller, OnlyKeeper, NotPushed)
        ELSE IF ~(~circuitBreakerActive) THEN RevertPush(op, caller, AlreadyActive, NotPushed)
        ELSE IF CallReverts(pm) # NoError THEN RevertPush(op, caller, CallReverts(pm), push)
        ELSE /\ circuitBreakerActive' = TRUE
             /\ lastCircuitBreakerTimestamp' = now
             /\ marketConfig' = [marketConfig EXCEPT !.isPaused = TRUE]
             /\ marketStates' = Recorded(push, [marketStates EXCEPT !.isPaused = TRUE])
             /\ result' = PushOutcome(op, caller, NoError,
                    <<[name |-> "MarketPaused"], [name |-> "CircuitBreakerTriggered"]>>, push)
             /\ UNCHANGED <<now, priceHistory, keeper, admin, rmAdmin, rmKeeper,
                            lastFundingUpdate, bookVars, authorizedCallers, cwAdmin>>

\* resetCircuitBreaker()
ResetCircuitBreaker(caller, hyperCoreOk) ==
    LET op   == "resetCircuitBreaker"
        rm   == ResumeMarketErr(ORACLE_ADAPTER, hyperCoreOk)
        push == ResumeMarketPush(ORACLE_ADAPTER, hyperCoreOk)
    IN  IF ~onlyAdmin(caller) THEN RevertPush(op, caller, OnlyAdmin, NotPushed)
        ELSE IF ~circuitBreakerActive
             THEN RevertPush(op, caller, CircuitBreakerNotActive, NotPushed)
        ELSE IF ~CoolDownElapsed
             THEN RevertPush(op, caller, CoolDownNotElapsed, NotPushed)
        ELSE IF CallReverts(rm) # NoError THEN RevertPush(op, caller, CallReverts(rm), push)
        ELSE /\ circuitBreakerActive' = FALSE
             /\ marketConfig' = [marketConfig EXCEPT !.isPaused = FALSE]
             /\ marketStates' = Recorded(push, [marketStates EXCEPT !.isPaused = FALSE])
             /\ result' = PushOutcome(op, caller, NoError,
                    <<[name |-> "MarketResumed"], [name |-> "CircuitBreakerReset"]>>, push)
             /\ UNCHANGED <<now, lastCircuitBreakerTimestamp, priceHistory, keeper, admin,
                            rmAdmin, rmKeeper, lastFundingUpdate, bookVars,
                            authorizedCallers, cwAdmin>>

\* updateKeeper(newKeeper)
UpdateKeeper(caller, newKeeper) ==
    IF ~onlyAdmin(caller) THEN Revert("updateKeeper", caller, OnlyAdmin)
    ELSE /\ keeper' = newKeeper
         /\ result' = Outcome("updateKeeper", caller, NoError, <<>>)
         /\ UNCHANGED <<now, circuitBreakerActive, lastCircuitBreakerTimestamp, priceHistory,
                        admin, riskVars, writerVars>>

\* updateAdmin(newAdmin)
UpdateAdmin(caller, newAdmin) ==
    IF ~onlyAdmin(caller) THEN Revert("updateAdmin", caller, OnlyAdmin)
    ELSE /\ admin' = newAdmin
         /\ result' = Outcome("updateAdmin", caller, NoError, <<>>)
         /\ UNCHANGED <<now, circuitBreakerActive, lastCircuitBreakerTimestamp, priceHistory,
                        keeper, riskVars, writerVars>>

----------------------------------------------------------------------------
(* RiskManager: external functions *)

\* pauseMarket() called directly
PauseMarket(caller, hyperCoreOk) ==
    LET err  == PauseMarketErr(caller, hyperCoreOk)
        push == PauseMarketPush(caller, hyperCoreOk)
    IN  IF err # NoError THEN RevertPush("pauseMarket", caller, err, push)
        ELSE /\ marketConfig' = [marketConfig EXCEPT !.isPaused = TRUE]
             /\ marketStates' = Recorded(push, [marketStates EXCEPT !.isPaused = TRUE])
             /\ result' = PushOutcome("pauseMarket", caller, NoError,
                                      <<[name |-> "MarketPaused"]>>, push)
             /\ UNCHANGED <<now, oracleVars, rmAdmin, rmKeeper, lastFundingUpdate, bookVars,
                            authorizedCallers, cwAdmin>>

\* resumeMarket() called directly
ResumeMarket(caller, hyperCoreOk) ==
    LET err  == ResumeMarketErr(caller, hyperCoreOk)
        push == ResumeMarketPush(caller, hyperCoreOk)
    IN  IF err # NoError THEN RevertPush("resumeMarket", caller, err, push)
        ELSE /\ marketConfig' = [marketConfig EXCEPT !.isPaused = FALSE]
             /\ marketStates' = Recorded(push, [marketStates EXCEPT !.isPaused = FALSE])
             /\ result' = PushOutcome("resumeMarket", caller, NoError,
                                      <<[name |-> "MarketResumed"]>>, push)
             /\ UNCHANGED <<now, oracleVars, rmAdmin, rmKeeper, lastFundingUpdate, bookVars,
                            authorizedCallers, cwAdmin>>

\* RiskManager modifiers
onlyRiskAdmin_OrKeeper(sender) == sender = rmAdmin \/ sender = rmKeeper
onlyRiskAdmin(sender) == sender = rmAdmin

onlyLiquidator(sender) == sender \in liquidators

marketNotPaused_Ignored == TRUE
marketNotPaused == ~marketConfig.isPaused

\* addLiquidator(liquidator)
AddLiquidator(caller, liquidator) ==
    IF ~onlyRiskAdmin(caller) THEN Revert("addLiquidator", caller, OnlyRiskAdmin)
    ELSE /\ liquidators' = liquidators \cup {liquidator}
         /\ result' = Outcome("addLiquidator", caller, NoError, <<>>)
         /\ UNCHANGED <<now, oracleVars, rmAdmin, rmKeeper, lastFundingUpdate, marketConfig, leverageTiers,
                        positions, openInterestVars, writerVars>>

\* removeLiquidator(liquidator)
RemoveLiquidator(caller, liquidator) ==
    IF ~onlyRiskAdmin(caller) THEN Revert("removeLiquidator", caller, OnlyRiskAdmin)
    ELSE /\ liquidators' = liquidators \ {liquidator}
         /\ result' = Outcome("removeLiquidator", caller, NoError, <<>>)
         /\ UNCHANGED <<now, oracleVars, rmAdmin, rmKeeper, lastFundingUpdate, marketConfig, leverageTiers,
                        positions, openInterestVars, writerVars>>

\* a reverted call whose argument is recorded with the outcome
Rejected(op, caller, err, args) ==
    /\ result' = Returned(op, caller, err, args, <<>>)
    /\ UNCHANGED <<now, oracleVars, riskVars, writerVars>>

\* updateLeverageTiers(tiers)
UpdateLeverageTiers(caller, tiers) ==
    LET op == "updateLeverageTiers" IN
    IF ~onlyRiskAdmin(caller) THEN Rejected(op, caller, OnlyRiskAdmin, tiers)
    ELSE IF ~(Len(tiers) > 0) THEN Rejected(op, caller, EmptyTiers, tiers)
    ELSE IF TiersError(tiers, 1) # NoError THEN Rejected(op, caller, TiersError(tiers, 1), tiers)
    ELSE /\ leverageTiers' = tiers
         /\ result' = [Returned(op, caller, NoError, tiers, <<>>) EXCEPT
                          !.events = <<[name |-> "LeverageTiersUpdated",
                                        tierCount |-> Len(tiers)]>>]
         /\ UNCHANGED <<now, oracleVars, rmAdmin, rmKeeper, lastFundingUpdate, marketConfig,
                        positions, liquidators, openInterestVars, writerVars>>

\* RiskManager.onlyKeeper: the keeper or the admin
onlyRiskKeeper(sender) == sender = rmKeeper \/ sender = rmAdmin

\* updateFundingRate: block.timestamp >= lastFundingUpdate + 3600
FundingIntervalElapsed_Ignored == TRUE
FundingIntervalElapsed == now >= lastFundingUpdate + FUNDING_INTERVAL

\* updateFundingRate()
UpdateFundingRate(caller, hyperCoreOk) ==
    LET op   == "updateFundingRate"
        skew == totalLongOpenInterest - totalShortOpenInterest
        rate == FundingRate(totalLongOpenInterest, totalShortOpenInterest)
        push == WriterSetFundingRate(RISK_MANAGER, rate, hyperCoreOk)
    IN  IF ~onlyRiskKeeper(caller) THEN RevertPush(op, caller, OnlyRiskKeeper, NotPushed)
        ELSE IF ~FundingIntervalElapsed THEN RevertPush(op, caller, TooSoon, NotPushed)
        ELSE IF CallReverts(push) # NoError THEN RevertPush(op, caller, CallReverts(push), push)
        ELSE /\ marketConfig' = [marketConfig EXCEPT !.fundingRate = rate]
             /\ lastFundingUpdate' = now
             /\ marketStates' = Recorded(push, [marketStates EXCEPT !.fundingRate = rate])
             /\ result' = PushOutcome(op, caller, NoError,
                    <<[name |-> "FundingRateUpdated", rate |-> rate, skew |-> skew]>>, push)
             /\ UNCHANGED <<now, oracleVars, rmAdmin, rmKeeper, bookVars,
                            authorizedCallers, cwAdmin>>

\* a function that writes to the ledger and takes an argument reverted
RejectedPush(op, caller, err, push, args) ==
    /\ result' = PushReturned(op, caller, err, <<>>, push, args)
    /\ UNCHANGED <<now, oracleVars, riskVars, writerVars>>

\* setEarningsMode(enabled)
SetEarningsMode(caller, enabled, hyperCoreOk) ==
    LET op        == "setEarningsMode"
        newConfig == [marketConfig EXCEPT !.isEarningsMode = enabled]
        newTiers  == IF enabled THEN ApplyEarningsModeLeverage(leverageTiers)
                     ELSE RestoreNormalLeverage(leverageTiers)
        config    == EncodeMarketConfig(newConfig)
        push      == WriterUpdateMarketConfig(RISK_MANAGER, config, hyperCoreOk)
    IN  IF ~onlyRiskAdmin(caller) THEN RejectedPush(op, caller, OnlyRiskAdmin, NotPushed, enabled)
        ELSE IF CallReverts(push) # NoError
             THEN RejectedPush(op, caller, CallReverts(push), push, enabled)
        ELSE /\ marketConfig' = newConfig
             /\ leverageTiers' = newTiers
             /\ marketStates' = Recorded(push, DecodeMarketState(config).state)
             /\ result' = PushReturned(op, caller, NoError,
                    <<[name |-> "EarningsModeToggled", enabled |-> enabled]>>, push, enabled)
             /\ UNCHANGED <<now, oracleVars, rmAdmin, rmKeeper, lastFundingUpdate, positions,
                            liquidators, openInterestVars, authorizedCallers, cwAdmin>>

\* updateMarketConfig(config)
UpdateMarketConfig(caller, newConfig, hyperCoreOk) ==
    LET op     == "updateMarketConfig"
        config == EncodeMarketConfig(newConfig)
        push   == WriterUpdateMarketConfig(RISK_MANAGER, config, hyperCoreOk)
    IN  IF ~onlyRiskAdmin(caller)
        THEN RejectedPush(op, caller, OnlyRiskAdmin, NotPushed, newConfig)
        ELSE IF CallReverts(push) # NoError
             THEN RejectedPush(op, caller, CallReverts(push), push, newConfig)
        ELSE /\ marketConfig' = newConfig
             /\ marketStates' = Recorded(push, DecodeMarketState(config).state)
             /\ result' = PushReturned(op, caller, NoError, <<>>, push, newConfig)
             /\ UNCHANGED <<now, oracleVars, rmAdmin, rmKeeper, lastFundingUpdate, bookVars,
                            authorizedCallers, cwAdmin>>

\* setAdmin(newAdmin)
SetAdmin(caller, newAdmin) ==
    IF ~onlyRiskAdmin(caller) THEN Revert("setAdmin", caller, OnlyRiskAdmin)
    ELSE /\ rmAdmin' = newAdmin
         /\ result' = Outcome("setAdmin", caller, NoError, <<>>)
         /\ UNCHANGED <<now, oracleVars, rmKeeper, lastFundingUpdate, marketConfig, bookVars,
                        writerVars>>

\* setKeeper(newKeeper)
SetKeeper(caller, newKeeper) ==
    IF ~onlyRiskAdmin(caller) THEN Revert("setKeeper", caller, OnlyRiskAdmin)
    ELSE /\ rmKeeper' = newKeeper
         /\ result' = Outcome("setKeeper", caller, NoError, <<>>)
         /\ UNCHANGED <<now, oracleVars, rmAdmin, lastFundingUpdate, marketConfig, bookVars,
                        writerVars>>

\* a trade that opens a position for a trader who has none: the position is
\* recorded and the open interest follows through _updateOpenInterest
OpenPosition(trader, size, price, margin) ==
    /\ positions[trader].size = 0
    /\ size # 0
    /\ totalLongOpenInterest + totalShortOpenInterest + Abs(size) <= MaxOpenInterest
    /\ positions' = [positions EXCEPT ![trader] = Position(size, price, margin)]
    /\ totalOpenInterest' = UpdateOpenInterest(size)[1]
    /\ totalLongOpenInterest' = UpdateOpenInterest(size)[2]
    /\ totalShortOpenInterest' = UpdateOpenInterest(size)[3]
    /\ result' = Outcome("openPosition", trader, NoError,
                         <<[name |-> "PositionOpened", trader |-> trader, size |-> size,
                            price |-> price]>>)
    /\ UNCHANGED <<now, oracleVars, rmAdmin, rmKeeper, lastFundingUpdate, marketConfig, leverageTiers,
                   liquidators, writerVars>>

\* "Pay liquidator reward": a tenth of the margin of pos
LiquidatorReward(pos) == pos.margin \div 10

\* liquidatePosition(trader) when Pyth holds pythPrice for the feed
LiquidatePosition(caller, trader, pythPrice) ==
    LET op     == "liquidatePosition"
        pos    == positions[trader]
        health == CheckPositionHealth(pos, leverageTiers, pythPrice, now)
        oracle == GetGMEPrice(pythPrice, now)
        pnl    == CalculatePnl(pos, oracle.price)
        \* pos is a storage reference: after "delete positions[trader]" it reads
        \* the cleared entry
        cleared == [positions EXCEPT ![trader] = EmptyPosition]
        liquidatorReward == LiquidatorReward(cleared[trader])
        liquidated == [name |-> "PositionLiquidated", trader |-> trader,
                       liquidator |-> caller, pnl |-> pnl.pnl]
        transfer   == [name |-> "transfer", to |-> caller, amount |-> liquidatorReward]
    IN  IF ~onlyLiquidator(caller) THEN Rejected(op, caller, OnlyLiquidator, <<trader, pythPrice>>)
        ELSE IF ~marketNotPaused THEN Rejected(op, caller, MarketPaused, <<trader, pythPrice>>)
        ELSE IF ~(pos.size # 0) THEN Rejected(op, caller, NoPosition, <<trader, pythPrice>>)
        ELSE IF health.err # NoError THEN Rejected(op, caller, health.err, <<trader, pythPrice>>)
        ELSE IF ~(~health.isHealthy) THEN Rejected(op, caller, PositionHealthy, <<trader, pythPrice>>)
        ELSE IF oracle.err # NoError THEN Rejected(op, caller, oracle.err, <<trader, pythPrice>>)
        ELSE IF pnl.err # NoError THEN Rejected(op, caller, pnl.err, <<trader, pythPrice>>)
        ELSE /\ totalOpenInterest' = UpdateOpenInterest(-pos.size)[1]
             /\ totalLongOpenInterest' = UpdateOpenInterest(-pos.size)[2]
             /\ totalShortOpenInterest' = UpdateOpenInterest(-pos.size)[3]
             /\ positions' = cleared
             /\ result' = [Returned(op, caller, NoError, <<trader, pythPrice>>, <<>>)
                           EXCEPT !.events = IF liquidatorReward > 0
                                             THEN <<transfer, liquidated>>
                                             ELSE <<liquidated>>]
             /\ UNCHANGED <<now, oracleVars, rmAdmin, rmKeeper, lastFundingUpdate, marketConfig, leverageTiers,
                            liquidators, writerVars>>

----------------------------------------------------------------------------
(* View and pure functions called from outside *)

\* a view call: only the outcome is recorded
View(op, caller, err, args, ret) ==
    /\ result' = Returned(op, caller, err, args, ret)
    /\ UNCHANGED <<now, oracleVars, riskVars, writerVars>>

\* OracleAdapter.getGMEPrice()
GetGMEPriceCall(caller, pythPrice) ==
    LET r == GetGMEPrice(pythPrice, now) IN
    View("getGMEPrice", caller, r.err, pythPrice,
         <<r.price, r.confidence, r.timestamp>>)

\* OracleAdapter.calculateTWAP(duration)
CalculateTWAPCall(caller, duration) ==
    LET r == CalculateTWAP(priceHistory, duration, now) IN
    View("calculateTWAP", caller, r.err, duration, r.twapPrice)

\* OracleAdapter.checkPriceDeviation(spotPrice, twapPrice)
CheckPriceDeviationCall(caller, spotPrice, twapPrice) ==
    LET r == CheckPriceDeviation(spotPrice, twapPrice) IN
    View("checkPriceDeviation", caller, r.err, <<spotPrice, twapPrice>>,
         <<r.isDeviated, r.deviationBps>>)

\* RiskManager.checkPositionHealth(account)
CheckPositionHealthCall(caller, account, pythPrice) ==
    LET r == CheckPositionHealth(positions[account], leverageTiers, pythPrice, now) IN
    View("checkPositionHealth", caller, r.err, <<account, pythPrice>>,
         <<r.isHealthy, r.healthFactor>>)

\* RiskManager._getLeverageTier(positionSize) on the table in storage; on an empty
\* table leverageTiers.length - 1 underflows
GetLeverageTierCall(caller, positionSize) ==
    IF Len(leverageTiers) = 0
    THEN View("_getLeverageTier", caller, ArithmeticPanic, positionSize, <<>>)
    ELSE View("_getLeverageTier", caller, NoError, positionSize,
              GetLeverageTier(leverageTiers, positionSize))

\* RiskManager.liquidationPrice(position)
LiquidationPriceCall(caller, position) ==
    View("liquidationPrice", caller, NoError, position, LiquidationPrice(position))

----------------------------------------------------------------------------
(* CoreWriterImplementation: admin functions *)

\* addAuthorizedCaller(a)
AddAuthorizedCaller(caller, a) ==
    IF caller # cwAdmin THEN Revert("addAuthorizedCaller", caller, "Only admin")
    ELSE /\ authorizedCallers' = authorizedCallers \cup {a}
         /\ result' = Outcome("addAuthorizedCaller", caller, NoError, <<>>)
         /\ UNCHANGED <<now, oracleVars, riskVars, cwAdmin, marketStates>>

\* removeAuthorizedCaller(a)
RemoveAuthorizedCaller(caller, a) ==
    IF caller # cwAdmin THEN Revert("removeAuthorizedCaller", caller, "Only admin")
    ELSE /\ authorizedCallers' = authorizedCallers \ {a}
         /\ result' = Outcome("removeAuthorizedCaller", caller, NoError, <<>>)
         /\ UNCHANGED <<now, oracleVars, riskVars, cwAdmin, marketStates>>

----------------------------------------------------------------------------
(* Inputs *)

\* a Pyth price of `units` whole units with one decimal place, published lag
\* seconds before the block of timestamp t
PythPrice(units, lag, t) ==
    [price |-> units * 10, conf |-> 5, expo |-> -1, publishTime |-> t - lag]

\* the fee Pyth quotes for an update
UpdateFee == 1

\* a call of updatePriceAndValidate
IngestCall(caller, value, units, lag, ok) ==
    [caller |-> caller, value |-> value, units |-> units, lag |-> lag, ok |-> ok]

\* the keeper with a price of 100 published in the block, a fresh price of 150
\* published one second before the block, a stale price, and a failing ledger
OracleCalls ==
    {IngestCall("keeper", UpdateFee, 100, 0, TRUE),
     IngestCall("keeper", UpdateFee, 150, 1, TRUE),
     IngestCall("keeper", UpdateFee, 100, MAX_PRICE_STALENESS + 1, TRUE),
     IngestCall("keeper", UpdateFee, 150, 1, FALSE)}

\* the keeper with the prices of the 100 / 111 / 123 scenario
ScenarioCalls ==
    {IngestCall("keeper", UpdateFee, u, 0, TRUE) : u \in {100, 111, 123}}

\* the call c in the current block
Ingest(c) ==
    UpdatePriceAndValidate(c.caller, c.value, UpdateFee, PythPrice(c.units, c.lag, now), c.ok)

\* the call c in the next block, one second later
IngestNextSecond(c) ==
    /\ now + 1 <= StartTime + ScenarioLength
    /\ UpdatePriceAndValidateAt(now + 1, c.caller, c.value, UpdateFee,
                                PythPrice(c.units, c.lag, now + 1), c.ok)

\* the keeper with prices of 100 and 150, with a failing ledger, and somebody else
BreakerCalls ==
    {IngestCall("keeper", UpdateFee, 100, 0, TRUE),
     IngestCall("keeper", UpdateFee, 150, 0, TRUE),
     IngestCall("keeper", UpdateFee, 150, 0, FALSE),
     IngestCall("user", UpdateFee, 100, 0, TRUE)}

\* a steady price of 100 from the deployed keeper or from the user
SteadyCalls ==
    {IngestCall(c, UpdateFee, 100, 0, TRUE) : c \in {"keeper", "user"}}

\* the keeper with a price of 100 published in the block and a price of 150
\* published two seconds before the block
TwapCalls ==
    {IngestCall("keeper", UpdateFee, 100, 0, TRUE),
     IngestCall("keeper", UpdateFee, 150, 2, TRUE)}

\* duration arguments of calculateTWAP: the shortest and the longest allowed, the
\* one of the deviation check, and the two nearest ones that are not allowed
TwapWindows == {0, 1, DEVIATION_TWAP_WINDOW, TWAP_WINDOW, TWAP_WINDOW + 1}

\* what Pyth may hold for the feed while positions are open: 100.00, 90.00 and
\* 110.00 published in the block, 100.00 published beyond the staleness limit and
\* 100.00 published one second ahead of the block
RiskPrices(t) ==
    {PythPrice(100, 0, t), PythPrice(90, 0, t), PythPrice(110, 0, t),
     PythPrice(100, MAX_PRICE_STALENESS + 1, t), PythPrice(100, -1, t)}

\* a tier table that asks for full collateral at every size
StrictTiers == <<LeverageTier(500000 * PRICE_DECIMALS, 100, 10000, 10000)>>

\* arguments of updateLeverageTiers: the default table, the strict one, an empty
\* one and one whose maintenance margin exceeds its initial margin
TierTables ==
    {DefaultTiers, StrictTiers, <<>>,
     <<LeverageTier(10000 * PRICE_DECIMALS, 2000, 500, 250),
       LeverageTier(50000 * PRICE_DECIMALS, 1500, 333, 667)>>}

\* further arguments of updateLeverageTiers: a valid table with an odd leverage
\* and a tier whose margins are equal, a tier without leverage behind a valid
\* one, and an initial margin above 100%
MoreTierTables ==
    {<<LeverageTier(10000 * PRICE_DECIMALS, 2001, 500, 250),
       LeverageTier(50000 * PRICE_DECIMALS, 1500, 667, 667)>>,
     <<LeverageTier(10000 * PRICE_DECIMALS, 2000, 500, 250),
       LeverageTier(50000 * PRICE_DECIMALS, 0, 667, 333)>>,
     <<LeverageTier(10000 * PRICE_DECIMALS, 2000, 2 * BASIS_POINTS, 250)>>}

\* an argument of updateLeverageTiers whose tiers pass every check but come with
\* the larger ceiling first
UnorderedTiers ==
    <<LeverageTier(50000 * PRICE_DECIMALS, 1500, 667, 333),
      LeverageTier(10000 * PRICE_DECIMALS, 2000, 500, 250)>>

\* arguments of the tier lookup: nothing, the ceilings of the first two default
\* tiers and one more than each, and one more than the largest ceiling
Notionals ==
    {0, 10000 * PRICE_DECIMALS, 10000 * PRICE_DECIMALS + 1, 50000 * PRICE_DECIMALS,
     50000 * PRICE_DECIMALS + 1, 500000 * PRICE_DECIMALS + 1}

\* what Pyth may hold for the feed at block time t: positive and negative prices
\* with more, as many and fewer decimal places than the normalized scale,
\* published in the block,
\* at and just beyond the staleness limit, and one second ahead of the block
FeedPrices(t) ==
    {[price |-> p, conf |-> 15, expo |-> e, publishTime |-> t - lag] :
        p \in {1234, 1005, -1005},
        e \in {TARGET_EXPO - 1, TARGET_EXPO, TARGET_EXPO + 1},
        lag \in {0, MAX_PRICE_STALENESS, MAX_PRICE_STALENESS + 1, -1}}

\* spot and TWAP arguments of checkPriceDeviation
DeviationPrices ==
    {-100 * PRICE_DECIMALS, -1, 0, 1, 100 * PRICE_DECIMALS, 110 * PRICE_DECIMALS,
     111 * PRICE_DECIMALS, 123 * PRICE_DECIMALS}

\* arguments of liquidationPrice
SamplePositions ==
    {Position(size, entry * PRICE_DECIMALS, margin) :
        size \in {-100, 0, 100, 200}, entry \in {5, 100}, margin \in {0, 1000, 100000}}

----------------------------------------------------------------------------
(* Specifications *)

\* oracle adapter, risk manager and writer under every caller, with role changes
Next ==
    \/ \E d \in {MaxSmallTicks, COOL_DOWN} : Tick(d)
    \/ \E c \in SteadyCalls : Ingest(c)
    \/ \E c \in {"keeper", "user"}, ok \in BOOLEAN : TriggerCircuitBreaker(c, ok)
    \/ \E c \in {"admin", "user"}, ok \in BOOLEAN : ResetCircuitBreaker(c, ok)
    \/ \E c \in {"admin", "user"}, k \in {"keeper", "user"} : UpdateKeeper(c, k)
    \/ \E c \in {"admin", "user"}, a \in {"admin", "user"} : UpdateAdmin(c, a)
    \/ \E c \in Users, ok \in BOOLEAN : PauseMarket(c, ok)
    \/ \E c \in Users, ok \in BOOLEAN : ResumeMarket(c, ok)
    \/ \E c \in {"admin", "user"} : AddAuthorizedCaller(c, RISK_MANAGER)
    \/ \E c \in {"admin", "user"} : RemoveAuthorizedCaller(c, RISK_MANAGER)

Spec == Init /\ [][Next]_vars

\* the circuit breaker: ingests that can trip it, manual trigger and reset
NextBreaker ==
    \/ \E d \in {MaxSmallTicks, COOL_DOWN} : Tick(d)
    \/ \E c \in BreakerCalls : Ingest(c)
    \/ \E c \in {"keeper", "user"}, ok \in BOOLEAN : TriggerCircuitBreaker(c, ok)
    \/ \E c \in {"admin", "user"}, ok \in BOOLEAN : ResetCircuitBreaker(c, ok)
    \/ AddAuthorizedCaller("admin", RISK_MANAGER)

SpecBreaker == Init /\ [][NextBreaker]_vars

\* the price feed: the keeper's ingests as time passes, roles as deployed
NextOracle ==
    \/ \E d \in {MaxSmallTicks, COOL_DOWN} : Tick(d)
    \/ \E c \in OracleCalls : Ingest(c)
    \/ AddAuthorizedCaller("admin", RISK_MANAGER)

SpecOracle == Init /\ [][NextOracle]_vars

\* the TWAP read over histories the keeper's ingests build as time passes
NextTwap ==
    \/ \E d \in {MaxSmallTicks, COOL_DOWN} : Tick(d)
    \/ \E c \in TwapCalls : Ingest(c)
    \/ \E w \in TwapWindows : CalculateTWAPCall("user", w)

SpecTwap == Init /\ [][NextTwap]_vars

\* the risk manager's book: longs and shorts of 100 opened at 100.00 with margin
\* 1000, liquidators, tier tables, pause and resume, liquidations and health
\* reads at the prices Pyth may hold
NextRisk ==
    \/ \E t \in Traders, size \in {100, -100} :
           OpenPosition(t, size, 100 * PRICE_DECIMALS, 1000)
    \/ \E c \in {"admin", "user"} : AddLiquidator(c, "liquidator")
    \/ \E c \in {"admin", "user"} : RemoveLiquidator(c, "liquidator")
    \/ \E c \in {"admin", "user"}, tiers \in TierTables : UpdateLeverageTiers(c, tiers)
    \/ AddAuthorizedCaller("admin", RISK_MANAGER)
    \/ PauseMarket("admin", TRUE)
    \/ ResumeMarket("admin", TRUE)
    \/ \E c \in {"liquidator", "user"}, t \in Traders, p \in RiskPrices(now) :
           LiquidatePosition(c, t, p)
    \/ \E a \in Traders, p \in RiskPrices(now) : CheckPositionHealthCall("user", a, p)
    \/ \E a \in Traders : LiquidationPriceCall("user", positions[a])
    \/ LiquidationPriceCall("user", Position(0, 100 * PRICE_DECIMALS, 1000))

SpecRisk == Init /\ [][NextRisk]_vars

\* the view and pure functions of the oracle adapter and the risk manager on
\* sample arguments
NextMath ==
    \/ \E d \in {MaxSmallTicks, COOL_DOWN} : Tick(d)
    \/ \E p \in FeedPrices(now) : GetGMEPriceCall("user", p)
    \/ \E spot \in DeviationPrices, twap \in DeviationPrices :
           CheckPriceDeviationCall("user", spot, twap)
    \/ \E pos \in SamplePositions : LiquidationPriceCall("user", pos)

SpecMath == Init /\ [][NextMath]_vars

\* the price feed with the scenario's prices, one ingest per second
NextScenario ==
    \/ \E c \in ScenarioCalls : IngestNextSecond(c)
    \/ AddAuthorizedCaller("admin", RISK_MANAGER)

SpecScenario == Init /\ [][NextScenario]_vars

\* funding: a long of 100 and a short of 200 opened at 100.00, the writer's
\* authorization of the risk manager, and funding updates by every caller, with a
\* working and a failing ledger, as seconds and almost the funding interval pass
NextFunding ==
    \/ \E d \in {1, FUNDING_INTERVAL - 1} : Wait(d)
    \/ \E t \in Traders, size \in {100, -200} :
           OpenPosition(t, size, 100 * PRICE_DECIMALS, 1000)
    \/ AddAuthorizedCaller("admin", RISK_MANAGER)
    \/ \E c \in Users, ok \in BOOLEAN : UpdateFundingRate(c, ok)

SpecFunding == Init /\ [][NextFunding]_vars

\* the tier table: replacements by the admin and by a user, earnings mode
\* switched on and off by every caller with a working and a failing ledger, the
\* writer's authorization of the risk manager given and withdrawn, the keeper
\* role handed to the user, and tier lookups
NextTiers ==
    \/ \E c \in {"admin", "user"},
          tiers \in TierTables \cup MoreTierTables \cup {UnorderedTiers} :
           UpdateLeverageTiers(c, tiers)
    \/ \E n \in Notionals : GetLeverageTierCall("user", n)
    \/ \E c \in Users, enabled \in BOOLEAN, ok \in BOOLEAN : SetEarningsMode(c, enabled, ok)
    \/ AddAuthorizedCaller("admin", RISK_MANAGER)
    \/ RemoveAuthorizedCaller("admin", RISK_MANAGER)
    \/ \E k \in {"keeper", "user"} : SetKeeper("admin", k)

SpecTiers == Init /\ [][NextTiers]_vars

\* roles: every guarded function called by the admin, the keeper and a user, on
\* arguments that fail a later check where there is one (a short fee, an empty
\* table), while each role is handed to the user
NextRoles ==
    \/ \E c \in Users : Ingest(IngestCall(c, 0, 100, 0, TRUE))
    \/ \E c \in Users : TriggerCircuitBreaker(c, TRUE)
    \/ \E c \in Users : ResetCircuitBreaker(c, TRUE)
    \/ \E c \in Users : UpdateKeeper(c, "user")
    \/ \E c \in Users : UpdateAdmin(c, "user")
    \/ \E c \in Users : PauseMarket(c, TRUE)
    \/ \E c \in Users : ResumeMarket(c, TRUE)
    \/ \E c \in Users : SetEarningsMode(c, TRUE, TRUE)
    \/ \E c \in Users : UpdateMarketConfig(c, [marketConfig EXCEPT !.takerFee = 60], TRUE)
    \/ \E c \in Users : UpdateLeverageTiers(c, <<>>)
    \/ \E c \in Users : UpdateFundingRate(c, TRUE)
    \/ \E c \in Users : SetAdmin(c, "user")
    \/ \E c \in Users : SetKeeper(c, "user")
    \/ \E c \in Users : AddLiquidator(c, "liquidator")
    \/ \E c \in Users : RemoveLiquidator(c, "liquidator")
    \/ \E c \in Users \cup {"liquidator"} :
           LiquidatePosition(c, "alice", PythPrice(100, 0, now))
    \/ \E c \in Users : AddAuthorizedCaller(c, RISK_MANAGER)
    \/ \E c \in Users : RemoveAuthorizedCaller(c, RISK_MANAGER)

SpecRoles == Init /\ [][NextRoles]_vars

\* the keeper with a price of 100 and with a price of 150 while the ledger works
\* and while it fails
LedgerCalls ==
    {IngestCall("keeper", UpdateFee, 100, 0, TRUE),
     IngestCall("keeper", UpdateFee, 150, 0, TRUE),
     IngestCall("keeper", UpdateFee, 150, 0, FALSE)}

\* the ledger: every function that writes to it, called by a caller its role
\* check admits, with a working and a failing ledger, before and after the
\* writer authorizes the risk manager, before and after a cool-down
NextLedger ==
    \/ Tick(COOL_DOWN)
    \/ \E c \in LedgerCalls : Ingest(c)
    \/ \E ok \in BOOLEAN : TriggerCircuitBreaker("keeper", ok)
    \/ \E ok \in BOOLEAN : ResetCircuitBreaker("admin", ok)
    \/ \E ok \in BOOLEAN : PauseMarket("admin", ok)
    \/ \E ok \in BOOLEAN : ResumeMarket("admin", ok)
    \/ \E ok \in BOOLEAN : UpdateFundingRate("keeper", ok)
    \/ \E ok \in BOOLEAN : SetEarningsMode("admin", TRUE, ok)
    \/ \E ok \in BOOLEAN :
           UpdateMarketConfig("admin", [marketConfig EXCEPT !.takerFee = 60], ok)
    \/ AddAuthorizedCaller("admin", RISK_MANAGER)

SpecLedger == Init /\ [][NextLedger]_vars

\* the keeper with a price of 100, with the fee not paid, with a stale price, and
\* somebody else
AtomicCalls ==
    {IngestCall("keeper", UpdateFee, 100, 0, TRUE),
     IngestCall("keeper", UpdateFee - 1, 100, 0, TRUE),
     IngestCall("keeper", UpdateFee, 100, MAX_PRICE_STALENESS + 1, TRUE),
     IngestCall("user", UpdateFee, 100, 0, TRUE)}

\* failures: every function that changes state, called so that it succeeds and
\* so that it fails at its checks (the role, the breaker, the fee, the freshness,
\* the cool-down, the pause, the health, the tiers, the funding interval, the
\* writer's authorization, the encoded config, the ledger call)
NextAtomic ==
    \/ \E c \in AtomicCalls : Ingest(c)
    \/ \E ok \in BOOLEAN : TriggerCircuitBreaker("keeper", ok)
    \/ ResetCircuitBreaker("admin", TRUE)
    \/ \E ok \in BOOLEAN : PauseMarket("admin", ok)
    \/ \E ok \in BOOLEAN : ResumeMarket("admin", ok)
    \/ \E enabled \in BOOLEAN : SetEarningsMode("admin", enabled, TRUE)
    \/ \E tiers \in TierTables : UpdateLeverageTiers("admin", tiers)
    \/ UpdateMarketConfig("admin", [marketConfig EXCEPT !.takerFee = 60], TRUE)
    \/ \E ok \in BOOLEAN : UpdateFundingRate("keeper", ok)
    \/ OpenPosition("alice", 100, 100 * PRICE_DECIMALS, 1000)
    \/ AddLiquidator("admin", "liquidator")
    \/ \E c \in {"liquidator", "user"}, p \in RiskPrices(now) :
           LiquidatePosition(c, "alice", p)
    \/ AddAuthorizedCaller("admin", RISK_MANAGER)

SpecAtomic == Init /\ [][NextAtomic]_vars

----------------------------------------------------------------------------
(* Observations used by the properties *)

\* the step is a call of the named function (a reverted call changes only `result`)
Called(op) == now' = now /\ result'.op = op

IngestOp == "updatePriceAndValidate"
ResetOp  == "resetCircuitBreaker"

\* a deviation signal is among the events of outcome r
Signalled(r) == \E i \in 1..Len(r.events) : r.events[i].name = "PriceDeviationDetected"

\* the point announced by the PriceUpdated event of a successful ingest
Announced(r) ==
    LET e == r.events[Len(r.events)] IN [price |-> e.price, timestamp |-> e.timestamp]

\* the step activates the breaker as the adapter does: flag, activation time, pause
Trips ==
    /\ ~circuitBreakerActive /\ circuitBreakerActive'
    /\ lastCircuitBreakerTimestamp' = now
    /\ marketConfig'.isPaused

\* arithmetic mean of the prices of all points of h not older than cutoffTime
RECURSIVE SumInWindow(_, _, _)
SumInWindow(h, i, cutoffTime) ==
    IF i = 0 THEN [sum |-> 0, count |-> 0]
    ELSE LET rest == SumInWindow(h, i - 1, cutoffTime) IN
         IF h[i].timestamp >= cutoffTime
         THEN [sum |-> rest.sum + h[i].price, count |-> rest.count + 1]
         ELSE rest

MeanInWindow(h, cutoffTime) ==
    LET acc == SumInWindow(h, Len(h), cutoffTime) IN acc.sum \div acc.count

\* |spot - mean| in basis points of mean
Bps(spot, mean) == (Abs(spot - mean) * 10000) \div mean

\* the prices of the stored points, in whole-unit scale
PricesAre(units) ==
    /\ Len(priceHistory) = Len(units)
    /\ \A i \in 1..Len(units) : priceHistory[i].price = units[i] * PRICE_DECIMALS

\* the stored points are one second apart
OneSecondApart ==
    \A i \in 1..(Len(priceHistory) - 1) :
        priceHistory[i + 1].timestamp = priceHistory[i].timestamp + 1

\* a successful ingest of `units` was the last call
Ingested(units) ==
    /\ result.op = IngestOp /\ result.err = NoError
    /\ Announced(result).price = units * PRICE_DECIMALS

----------------------------------------------------------------------------
(* Properties *)

\* C1: while the circuit breaker is active, however it was activated, every call
\* of updatePriceAndValidate reverts and stores no price point (the keeper's call
\* with "Circuit breaker is active", anybody else's at the role check), and the
\* breaker stays active in every step that is not a successful reset.
C1_IngestRejectedWhileBreached ==
    [][circuitBreakerActive =>
         /\ Called(IngestOp) =>
               /\ result'.err # NoError
               /\ priceHistory' = priceHistory
               /\ (result'.caller = keeper => result'.err = CircuitBreakerActive)
               /\ (result'.caller # keeper => result'.err = OnlyKeeper)
         /\ ~(Called(ResetOp) /\ result'.err = NoError) => circuitBreakerActive'
      ]_vars

\* C1 witness: the breaker is active with a full deviation history stored and the
\* keeper's ingest has just been rejected
C1_Witness ==
    /\ circuitBreakerActive
    /\ Len(priceHistory) >= MIN_DEVIATION_HISTORY
    /\ result.op = IngestOp /\ result.caller = keeper
    /\ result.err = CircuitBreakerActive

\* C2: whenever the circuit breaker is active, the market is paused.
C2_BreachedImpliesPaused == circuitBreakerActive => marketConfig.isPaused

\* C3: a call of resetCircuitBreaker made while the breaker is not active, or
\* less than 300 seconds after the activation time, reverts and leaves the
\* breaker flag, the activation time and the pause flag unchanged; the
\* activation time is the time of the most recent activation, manual or automatic.
C3_ResetRejected ==
    [][/\ (Called(ResetOp) /\ (~circuitBreakerActive
                                \/ now < lastCircuitBreakerTimestamp + COOL_DOWN))
          => /\ result'.err # NoError
             /\ UNCHANGED <<circuitBreakerActive, lastCircuitBreakerTimestamp, marketConfig>>
       /\ (~circuitBreakerActive /\ circuitBreakerActive')
          => lastCircuitBreakerTimestamp' = now
      ]_vars

\* C3 witness: time has passed since an automatic activation, but less than the
\* cool-down, and the admin's reset has just been rejected for that reason
C3_Witness ==
    /\ circuitBreakerActive
    /\ Len(priceHistory) >= MIN_DEVIATION_HISTORY
    /\ now > lastCircuitBreakerTimestamp
    /\ result.op = ResetOp /\ result.caller = admin
    /\ result.err = CoolDownNotElapsed

\* C4: the breaker goes from active to inactive only in a successful
\* resetCircuitBreaker called by the admin at least the cool-down after the
\* activation; no other call clears it.
C4_OnlyResetClears ==
    [][(circuitBreakerActive /\ ~circuitBreakerActive') =>
         /\ Called(ResetOp)
         /\ result'.err = NoError
         /\ result'.caller = admin
         /\ now >= lastCircuitBreakerTimestamp + COOL_DOWN
      ]_vars

\* C4 witness: the breaker, activated after the first time step, has just been
\* reset by an admin other than the deployed one
C4_Witness ==
    /\ ~circuitBreakerActive
    /\ result.op = ResetOp /\ result.err = NoError
    /\ admin = "user"
    /\ now >= lastCircuitBreakerTimestamp + COOL_DOWN
    /\ lastCircuitBreakerTimestamp > StartTime

\* the scenario after its fourth ingest: 100, 100, 100, 111 stored one second
\* apart, the ingest of 111 being the last call
ScenarioAfter111 ==
    PricesAre(<<100, 100, 100, 111>>) /\ OneSecondApart /\ Ingested(111)

\* the scenario after its fifth ingest, of 123
ScenarioAfter123 ==
    PricesAre(<<100, 100, 100, 111, 123>>) /\ OneSecondApart /\ Ingested(123)

\* the deviation reported by the deviation signal of outcome r
SignalledBps(r) == r.events[1].deviation

\* C5 as claimed: the ingest of 111 after 100, 100, 100 gives a deviation signal
\* without tripping the breaker, and the following ingest of 123 trips it.
C5_ScenarioAsClaimed ==
    /\ ScenarioAfter111 => (Signalled(result) /\ ~circuitBreakerActive)
    /\ ScenarioAfter123 => circuitBreakerActive

\* C5 as amended: the ingest of 111 gives no deviation signal (four points are
\* stored, the check needs five) and does not trip the breaker; the following
\* ingest of 123 is stored, gives a deviation signal of 1516 bps against the mean
\* 106.80 of the five stored points, and does not trip the breaker either.
C5_ScenarioAsBuilt ==
    /\ ScenarioAfter111 => (~Signalled(result) /\ ~circuitBreakerActive)
    /\ ScenarioAfter123 =>
          /\ Signalled(result) /\ SignalledBps(result) = 1516
          /\ ~circuitBreakerActive /\ ~marketConfig.isPaused

\* C5 witness: the five ingests of the scenario have been made
C5_Witness == ScenarioAfter123 /\ now = priceHistory[5].timestamp /\ now = StartTime + 5

\* deviation of the price just ingested from the mean of the stored points of the
\* last 60 seconds, in basis points
IngestBps ==
    Bps(Announced(result').price,
        MeanInWindow(priceHistory', now - DEVIATION_TWAP_WINDOW))

C7_HistorySorted ==
    \A i \in 1..(Len(priceHistory) - 1) :
        priceHistory[i].timestamp <= priceHistory[i + 1].timestamp

\* C8: between calls the price history never holds more than MAX_HISTORY_LENGTH
\* points.
C8_HistoryBounded == Len(priceHistory) <= MAX_HISTORY_LENGTH

\* C8 witness: the history is full and the last successful ingest announced a
\* point that is not the newest stored one, that is, it went through the trim
C8_Witness ==
    /\ Len(priceHistory) = MAX_HISTORY_LENGTH
    /\ result.op = IngestOp /\ result.err = NoError
    /\ Announced(result) # [price |-> priceHistory[MAX_HISTORY_LENGTH].price,
                            timestamp |-> priceHistory[MAX_HISTORY_LENGTH].timestamp]

\* C9: a successful ingest into a full history removes the oldest point: the last
\* entry afterwards is the ingested point and the entries before it are the
\* previous entries 2..MAX_HISTORY_LENGTH in their order.
C9_OldestEvicted ==
    [][(Called(IngestOp) /\ result'.err = NoError
          /\ Len(priceHistory) = MAX_HISTORY_LENGTH) =>
         /\ Len(priceHistory') = MAX_HISTORY_LENGTH
         /\ priceHistory'[MAX_HISTORY_LENGTH].price = Announced(result').price
         /\ priceHistory'[MAX_HISTORY_LENGTH].timestamp = Announced(result').timestamp
         /\ \A i \in 1..(MAX_HISTORY_LENGTH - 1) : priceHistory'[i] = priceHistory[i + 1]
      ]_vars

\* C10: an ingest of a point whose timestamp is not newer than that of the newest
\* stored point is rejected: every ingest that succeeds on a non-empty history
\* brings a strictly newer timestamp.
C10_StaleRejected ==
    [][(Called(IngestOp) /\ result'.err = NoError /\ Len(priceHistory) > 0) =>
         Announced(result').timestamp > priceHistory[Len(priceHistory)].timestamp
      ]_vars

\* value v with source exponent e in the normalized scale
Rescaled(v, e) ==
    IF e >= TARGET_EXPO THEN v * Pow10(e - TARGET_EXPO)
    ELSE TruncDiv(v, Pow10(TARGET_EXPO - e))

\* C11: getGMEPrice fails with StalePrice whenever the block time minus the
\* publish time of the price exceeds 10 seconds, and otherwise returns the price
\* and the confidence in the normalized scale together with the publish time.
C11_CurrentPriceFresh ==
    [][Called("getGMEPrice") =>
         LET p == result'.args IN
         IF now - p.publishTime > MAX_PRICE_STALENESS
         THEN result'.err = StalePrice
         ELSE /\ result'.err = NoError
              /\ result'.ret = <<Rescaled(p.price, p.expo), Rescaled(p.conf, p.expo),
                                 p.publishTime>>
      ]_vars

\* the indices of the stored points whose timestamp lies in [now - w, now]
PointsInWindow(w) ==
    {i \in 1..Len(priceHistory) :
        priceHistory[i].timestamp >= now - w /\ priceHistory[i].timestamp <= now}

\* the step is a call of calculateTWAP with an allowed duration
CalledTwap ==
    /\ Called("calculateTWAP")
    /\ result'.args > 0 /\ result'.args <= TWAP_WINDOW

\* C12: when exactly one stored point lies in the window of an allowed duration,
\* calculateTWAP returns the price of that point.
C12_TwapOfOnePoint ==
    [][(CalledTwap /\ Cardinality(PointsInWindow(result'.args)) = 1) =>
         /\ result'.err = NoError
         /\ \A i \in PointsInWindow(result'.args) : result'.ret = priceHistory[i].price
      ]_vars

\* C13: for an allowed duration, calculateTWAP returns the integer mean of the
\* prices of all stored points whose timestamp lies in the window, and fails for
\* want of data when no stored point lies in it (the revert on an empty history
\* counts as that failure).
C13_TwapIsWindowMean ==
    [][CalledTwap =>
         IF PointsInWindow(result'.args) = {}
         THEN result'.err \in {InsufficientHistory, NoPriceHistory}
         ELSE /\ result'.err = NoError
              /\ result'.ret = MeanInWindow(priceHistory, now - result'.args)
      ]_vars

\* C14: checkPriceDeviation(p, p) returns (false, 0) for every positive p, and
\* the function rejects every call in which spotPrice or twapPrice is not positive.
C14_DeviationOfEqualPrices ==
    [][Called("checkPriceDeviation") =>
         LET spotPrice == result'.args[1]
             twapPrice == result'.args[2]
         IN  /\ (spotPrice <= 0 \/ twapPrice <= 0) => result'.err = InvalidPrices
             /\ (spotPrice > 0 /\ spotPrice = twapPrice) =>
                   (result'.err = NoError /\ result'.ret = <<FALSE, 0>>)
      ]_vars

\* C14 witness: checkPriceDeviation has just returned (false, 0) for 100.00 against
\* 100.00
C14_Witness ==
    /\ result.op = "checkPriceDeviation" /\ result.err = NoError
    /\ result.args = <<100 * PRICE_DECIMALS, 100 * PRICE_DECIMALS>>
    /\ result.ret = <<FALSE, 0>>

\* the long position of the scenario: entry price 100.00, margin 1000, size 100
ScenarioLong == Position(100, 100 * PRICE_DECIMALS, 1000)

\* C19: liquidationPrice of a nonzero position is, for a long, the entry price
\* minus margin * scale / |size|, floored at zero, and for a short the entry
\* price plus margin * scale / |size|; for the long with entry 100.00, margin
\* 1000 and size 100 it is 90.00.
C19_LiquidationPrice ==
    [][Called("liquidationPrice") =>
         LET position == result'.args
             perUnit  == (position.margin * PRICE_DECIMALS) \div Abs(position.size)
         IN  /\ position.size > 0 =>
                   /\ result'.ret >= 0
                   /\ result'.ret >= position.avgEntryPrice - perUnit
                   /\ result'.ret > 0 => result'.ret = position.avgEntryPrice - perUnit
             /\ position.size < 0 => result'.ret = position.avgEntryPrice + perUnit
             /\ position = ScenarioLong => result'.ret = 90 * PRICE_DECIMALS
      ]_vars

\* C19 witness: liquidationPrice has just returned 90.00 for the long of the scenario
C19_Witness ==
    /\ result.op = "liquidationPrice" /\ result.args = ScenarioLong
    /\ result.ret = 90 * PRICE_DECIMALS

\* sum of the signed sizes of the positions of the traders in S
RECURSIVE SumOfSizes(_)
SumOfSizes(S) ==
    IF S = {} THEN 0
    ELSE LET a == CHOOSE x \in S : TRUE IN positions[a].size + SumOfSizes(S \ {a})

LiquidateOp == "liquidatePosition"

\* the step is a successful liquidatePosition
Liquidated == Called(LiquidateOp) /\ result'.err = NoError

\* the owner a liquidatePosition call names, and what positionHealth reports for
\* that owner before the call, at the price Pyth holds during the call
Owner(r) == r.args[1]
HealthBefore(r) ==
    CheckPositionHealth(positions[Owner(r)], leverageTiers, r.args[2], now)

\* C15: the signed sizes of all positions sum up to totalOpenInterest in every
\* state, and each successful liquidation zeroes the liquidated position, leaves
\* the other positions alone and reduces totalOpenInterest by the signed size the
\* position had.
C15_OpenInterestIsSumOfSizes ==
    /\ [](SumOfSizes(Traders) = totalOpenInterest)
    /\ [][Liquidated =>
            /\ positions' = [positions EXCEPT ![Owner(result')] = EmptyPosition]
            /\ totalOpenInterest' = totalOpenInterest - positions[Owner(result')].size
         ]_vars

\* C15 witness: a liquidation has just succeeded while another position stays open
C15_Witness ==
    /\ result.op = LiquidateOp /\ result.err = NoError
    /\ positions[Owner(result)] = EmptyPosition
    /\ \E a \in Traders : positions[a].size # 0
    /\ totalOpenInterest = SumOfSizes(Traders)

\* what is common to C16 as claimed and as amended: a liquidation succeeds only
\* for a liquidator, on a market that is not paused, when positionHealth reports
\* the owner unhealthy; a caller who is not a liquidator is rejected as
\* unauthorized, a liquidator on a paused market with MarketPaused; a rejected
\* call leaves the positions and the three open-interest totals unchanged.
LiquidationGuarded ==
    /\ result'.err = NoError =>
          /\ result'.caller \in liquidators
          /\ ~marketConfig.isPaused
          /\ HealthBefore(result').err = NoError
          /\ ~HealthBefore(result').isHealthy
    /\ result'.caller \notin liquidators => result'.err = OnlyLiquidator
    /\ (result'.caller \in liquidators /\ marketConfig.isPaused) =>
          result'.err = MarketPaused
    /\ result'.err # NoError => UNCHANGED <<positions, openInterestVars>>

\* the liquidator's call on a market that is not paused
LiquidatorOnOpenMarket == result'.caller \in liquidators /\ ~marketConfig.isPaused

\* C16 as claimed: ... and whenever positionHealth reports the owner healthy the
\* liquidator's call fails with PositionHealthy.
C16_LiquidateAsClaimed ==
    [][Called(LiquidateOp) =>
         /\ LiquidationGuarded
         /\ (LiquidatorOnOpenMarket /\ HealthBefore(result').err = NoError
               /\ HealthBefore(result').isHealthy) => result'.err = PositionHealthy
      ]_vars

\* C16 as amended: ... and the liquidator's call fails with PositionHealthy when
\* the owner has a position that positionHealth reports healthy; for an owner
\* without a position (size 0) it fails with "No position" instead.
C16_LiquidateAsBuilt ==
    [][Called(LiquidateOp) =>
         /\ LiquidationGuarded
         /\ (LiquidatorOnOpenMarket /\ positions[Owner(result')].size # 0
               /\ HealthBefore(result').err = NoError
               /\ HealthBefore(result').isHealthy) => result'.err = PositionHealthy
         /\ (LiquidatorOnOpenMarket /\ positions[Owner(result')].size = 0) =>
               result'.err = NoPosition
      ]_vars

\* C16 witness: a liquidator's call on an open, healthy position has just been
\* rejected with PositionHealthy
C16_Witness ==
    /\ result.op = LiquidateOp /\ result.err = PositionHealthy
    /\ result.caller \in liquidators
    /\ positions[Owner(result)].size # 0

\* what the events of outcome r transfer to its caller
RECURSIVE PaidFrom(_, _)
PaidFrom(r, i) ==
    IF i > Len(r.events) THEN 0
    ELSE (IF r.events[i].name = "transfer" /\ r.events[i].to = r.caller
          THEN r.events[i].amount ELSE 0) + PaidFrom(r, i + 1)

\* C17: every successful liquidation pays the caller a tenth of the margin the
\* position held before it was zeroed.
C17_RewardIsTenthOfMargin ==
    [][Liquidated =>
         PaidFrom(result', 1) = positions[Owner(result')].margin \div 10
      ]_vars

\* C18: for an account whose position has size 0, checkPositionHealth returns
\* healthy with the maximal health factor whatever Pyth holds (fresh, stale or
\* unreadable), and liquidationPrice returns 0 for a position of size 0.
C18_ZeroPosition ==
    [][/\ (Called("checkPositionHealth") /\ positions[result'.args[1]].size = 0) =>
             (result'.err = NoError /\ result'.ret = <<TRUE, UINT256_MAX>>)
       /\ (Called("liquidationPrice") /\ result'.args.size = 0) =>
             (result'.err = NoError /\ result'.ret = 0)
      ]_vars

\* C18 witness: checkPositionHealth has just reported an account without a
\* position healthy while the price Pyth holds is stale
C18_Witness ==
    /\ result.op = "checkPositionHealth" /\ result.err = NoError
    /\ positions[result.args[1]].size = 0
    /\ now - result.args[2].publishTime > MAX_PRICE_STALENESS
    /\ result.ret = <<TRUE, UINT256_MAX>>

\* value a of the larger of a and 0
FlooredAtZero(a) == IF a < 0 THEN 0 ELSE a

\* C20: for a position of nonzero size and a fresh oracle price, checkPositionHealth
\* returns, and reports healthy exactly when margin + pnl, floored at zero, is at
\* least notional * maintenanceMargin / 10000, pnl being
\* size * (markPrice - avgEntryPrice) / avgEntryPrice (negative for a losing long
\* and a losing short).
C20_HealthOfOpenPosition ==
    [][(/\ Called("checkPositionHealth")
        /\ positions[result'.args[1]].size # 0
        /\ now - result'.args[2].publishTime \in 0..MAX_PRICE_STALENESS) =>
         LET pos       == positions[result'.args[1]]
             markPrice == Rescaled(result'.args[2].price, result'.args[2].expo)
             pnl       == TruncDiv(pos.size * (markPrice - pos.avgEntryPrice),
                                   pos.avgEntryPrice)
             notional  == (Abs(pos.size) * markPrice) \div PRICE_DECIMALS
             tier      == GetLeverageTier(leverageTiers, notional)
         IN  /\ result'.err = NoError
             /\ result'.ret[1] = (FlooredAtZero(pos.margin + pnl)
                                    >= (notional * tier.maintenanceMargin) \div BASIS_POINTS)
      ]_vars

----------------------------------------------------------------------------
(* Funding *)

FundingOp == "updateFundingRate"

\* the step changes no contract state
NothingChanges == UNCHANGED <<oracleVars, riskVars, writerVars>>

\* C21: updateFundingRate is rate-limited.  lastFundingUpdate is the time of the
\* previous successful call (only a successful call sets it, to the block time);
\* a call by the keeper or the admin less than the funding interval after it
\* fails with "Too soon" and changes nothing, and a successful call is at least
\* the funding interval after the previous successful one.
C21_FundingRateLimited ==
    [][/\ lastFundingUpdate' # lastFundingUpdate =>
              Called(FundingOp) /\ result'.err = NoError /\ lastFundingUpdate' = now
       /\ Called(FundingOp) /\ result'.err = NoError =>
              lastFundingUpdate' = now /\ now >= lastFundingUpdate + FUNDING_INTERVAL
       /\ (/\ Called(FundingOp)
           /\ onlyRiskKeeper(result'.caller)
           /\ lastFundingUpdate > 0
           /\ now < lastFundingUpdate + FUNDING_INTERVAL) =>
              result'.err = TooSoon /\ NothingChanges]_vars

\* a call one second short of the interval after a successful one was rejected
C21_Witness ==
    /\ result.op = FundingOp /\ result.err = TooSoon
    /\ lastFundingUpdate = StartTime
    /\ now = lastFundingUpdate + FUNDING_INTERVAL - 1

\* C22: after a successful updateFundingRate the funding rate is 10 when long
\* plus short open interest is zero and otherwise 100 * |long - short| /
\* (long + short) rounded down, it never exceeds 100, and the writer holds the
\* same value.
C22_FundingRateValue ==
    [][Called(FundingOp) /\ result'.err = NoError =>
          LET long  == totalLongOpenInterest
              short == totalShortOpenInterest
              rate  == marketConfig'.fundingRate
          IN  /\ long + short = 0 => rate = DEFAULT_FUNDING_RATE
              /\ long + short # 0 =>
                     /\ rate * (long + short) <= 100 * Abs(long - short)
                     /\ 100 * Abs(long - short) < (rate + 1) * (long + short)
              /\ rate <= MAX_FUNDING_RATE
              /\ marketStates'.fundingRate = rate
              /\ result'.events[1].rate = rate]_vars

\* a successful update with a long of 100 against a short of 200: rate 33
C22_Witness ==
    /\ result.op = FundingOp /\ result.err = NoError
    /\ totalLongOpenInterest = 100 /\ totalShortOpenInterest = 200
    /\ marketConfig.fundingRate = 33 /\ marketStates.fundingRate = 33

----------------------------------------------------------------------------
(* Earnings mode and the tier table *)

EarningsOp == "setEarningsMode"
TiersOp    == "updateLeverageTiers"

\* table `after` is table `before` with every tier's maxLeverage halved and
\* initialMargin doubled, tier by tier
Halved(before, after) ==
    /\ Len(after) = Len(before)
    /\ \A i \in 1..Len(before) :
           /\ after[i].maxLeverage = before[i].maxLeverage \div 2
           /\ after[i].initialMargin = before[i].initialMargin * 2
           /\ after[i].maintenanceMargin = before[i].maintenanceMargin
           /\ after[i].maxPositionSize = before[i].maxPositionSize

\* the call recorded in r came from the admin while the writer accepts the risk
\* manager, and the ledger was not what failed
AdminWithWorkingLedger(r) ==
    /\ r.caller = rmAdmin
    /\ RISK_MANAGER \in authorizedCallers \/ RISK_MANAGER = cwAdmin
    /\ r.push # LedgerWriteFailed

\* C23: setEarningsMode(true) called by the admin, with the writer accepting the
\* risk manager and the ledger call not failing, succeeds; a successful
\* setEarningsMode(true) halves maxLeverage and doubles initialMargin of every
\* tier relative to the table before the call and leaves the number of tiers
\* unchanged, and a failed one changes no tier.
C23_EnableHalvesEveryTier ==
    [][Called(EarningsOp) /\ result'.args =>
          /\ AdminWithWorkingLedger(result') => result'.err = NoError
          /\ result'.err = NoError => Halved(leverageTiers, leverageTiers')
          /\ result'.err # NoError => leverageTiers' = leverageTiers]_vars

\* C24: setEarningsMode(false) called by the admin, with the writer accepting the
\* risk manager and the ledger call not failing, succeeds; a successful
\* setEarningsMode(false) in earnings mode yields the table that earnings mode
\* had halved, with the same number of tiers.
C24_DisableRestoresBaseline ==
    [][Called(EarningsOp) /\ ~result'.args =>
          /\ AdminWithWorkingLedger(result') => result'.err = NoError
          /\ result'.err = NoError /\ marketConfig.isEarningsMode =>
                 Halved(leverageTiers', leverageTiers)]_vars

\* C25: in every reachable state every tier of the table has
\* maintenanceMargin <= initialMargin.
C25_MaintenanceWithinInitial ==
    \A i \in 1..Len(leverageTiers) :
        leverageTiers[i].maintenanceMargin <= leverageTiers[i].initialMargin

\* the table was replaced by one with a tier of equal margins, and
\* setEarningsMode(true) was called on it by the admin
C25_Witness ==
    /\ \E i \in 1..Len(leverageTiers) :
           leverageTiers[i].maintenanceMargin = leverageTiers[i].initialMargin
    /\ leverageTiers # DefaultTiers
    /\ result.op = EarningsOp /\ result.args /\ result.caller = rmAdmin

\* the errors of updateLeverageTiers that stand for InvalidTier
InvalidTier == {EmptyTiers, InvalidLeverage, InvalidIM, MMOverIM}

\* newTiers is empty or has a tier without leverage or with maintenance margin
\* above initial margin
InvalidAsClaimed(newTiers) ==
    \/ Len(newTiers) = 0
    \/ \E i \in 1..Len(newTiers) :
           \/ newTiers[i].maxLeverage = 0
           \/ newTiers[i].maintenanceMargin > newTiers[i].initialMargin

\* the step is a call of updateLeverageTiers by the admin that is rejected with
\* an InvalidTier error and changes no tier if `invalid`, and otherwise
\* succeeds and leaves the table equal to its argument
AllOrNothing(invalid) ==
    IF invalid
    THEN result'.err \in InvalidTier /\ leverageTiers' = leverageTiers
    ELSE result'.err = NoError /\ leverageTiers' = result'.args

\* C26 as stated: updateLeverageTiers(newTiers) by the admin fails with
\* InvalidTier, leaving the table as it was, if newTiers is empty or any tier
\* has maxLeverage = 0 or maintenanceMargin > initialMargin; otherwise the
\* table afterwards equals newTiers.
C26_TiersAsClaimed ==
    [][Called(TiersOp) /\ result'.caller = rmAdmin =>
          AllOrNothing(InvalidAsClaimed(result'.args))]_vars

\* C26 as built: updateLeverageTiers(newTiers) by the admin fails with
\* InvalidTier, leaving the table as it was, if newTiers is empty or any tier
\* has maxLeverage = 0, initialMargin > 10000 or maintenanceMargin >
\* initialMargin; otherwise the table afterwards equals newTiers.
C26_TiersAsBuilt ==
    [][Called(TiersOp) /\ result'.caller = rmAdmin =>
          AllOrNothing(\/ InvalidAsClaimed(result'.args)
                       \/ \E i \in 1..Len(result'.args) :
                              result'.args[i].initialMargin > BASIS_POINTS)]_vars

\* a table whose second tier has no leverage was rejected while a replaced table
\* was in place
C26_Witness ==
    /\ result.op = TiersOp /\ result.caller = rmAdmin
    /\ result.err = InvalidLeverage
    /\ Len(result.args) = 2 /\ result.args[1].maxLeverage > 0
    /\ leverageTiers = StrictTiers

\* C28 as stated: setEarningsMode called by the keeper, who is not the admin,
\* succeeds.
C28_KeeperToggles ==
    [][Called(EarningsOp) /\ result'.caller = rmKeeper /\ result'.caller # rmAdmin =>
          result'.err = NoError]_vars

\* C28 as built: setEarningsMode called by anyone but the admin, the keeper
\* included, is rejected with "Only admin" and changes nothing.
C28_OnlyAdminToggles ==
    [][Called(EarningsOp) /\ result'.caller # rmAdmin =>
          result'.err = OnlyRiskAdmin /\ NothingChanges]_vars

\* the keeper, who is not the admin, called setEarningsMode and was rejected
C28_Witness ==
    /\ result.op = EarningsOp
    /\ result.caller = rmKeeper /\ result.caller # rmAdmin
    /\ result.err = OnlyRiskAdmin

----------------------------------------------------------------------------
(* Roles *)

\* the functions guarded by a role, and the error each rejects a caller with
RoleError ==
    [updatePriceAndValidate |-> OnlyKeeper, triggerCircuitBreaker |-> OnlyKeeper,
     resetCircuitBreaker |-> OnlyAdmin, updateKeeper |-> OnlyAdmin, updateAdmin |-> OnlyAdmin,
     pauseMarket |-> Unauthorized, resumeMarket |-> Unauthorized,
     setEarningsMode |-> OnlyRiskAdmin, updateMarketConfig |-> OnlyRiskAdmin,
     updateLeverageTiers |-> OnlyRiskAdmin, updateFundingRate |-> OnlyRiskKeeper,
     setAdmin |-> OnlyRiskAdmin, setKeeper |-> OnlyRiskAdmin,
     addLiquidator |-> OnlyRiskAdmin, removeLiquidator |-> OnlyRiskAdmin,
     liquidatePosition |-> OnlyLiquidator,
     addAuthorizedCaller |-> OnlyRiskAdmin, removeAuthorizedCaller |-> OnlyRiskAdmin]

\* who holds the role a function asks for: the keeper of the adapter for ingest
\* and trigger; the keeper of the risk manager, or its admin, for the funding
\* update; the liquidators for liquidation; the admin or the keeper of the risk
\* manager, or the adapter, for pause and resume; the writer's admin for the
\* writer's list of callers; the admin of the contract for everything else
Holders(op) ==
    IF op \in {"updatePriceAndValidate", "triggerCircuitBreaker"} THEN {keeper}
    ELSE IF op \in {"resetCircuitBreaker", "updateKeeper", "updateAdmin"} THEN {admin}
    ELSE IF op = "updateFundingRate" THEN {rmKeeper, rmAdmin}
    ELSE IF op = "liquidatePosition" THEN liquidators
    ELSE IF op \in {"pauseMarket", "resumeMarket"} THEN {rmAdmin, rmKeeper, ORACLE_ADAPTER}
    ELSE IF op \in {"addAuthorizedCaller", "removeAuthorizedCaller"} THEN {cwAdmin}
    ELSE {rmAdmin}

----------------------------------------------------------------------------
(* The ledger *)

\* the functions of the risk manager and the adapter that write to the ledger
PushingOps ==
    {"pauseMarket", "resumeMarket", "updateFundingRate", "setEarningsMode",
     "updateMarketConfig", "triggerCircuitBreaker", "resetCircuitBreaker",
     "updatePriceAndValidate"}

\* the functions the mirror is claimed for
MirroredOps ==
    {"pauseMarket", "resumeMarket", "updateFundingRate", "triggerCircuitBreaker",
     "resetCircuitBreaker", "updatePriceAndValidate"}

\* C29: after every successful pauseMarket, resumeMarket, updateFundingRate,
\* breaker trigger and breaker reset, the writer's recorded isPaused and
\* fundingRate equal those of marketConfig.
C29_ConfigMirrored ==
    [][\A op \in MirroredOps :
          Called(op) /\ result'.err = NoError =>
              /\ marketStates'.isPaused = marketConfig'.isPaused
              /\ marketStates'.fundingRate = marketConfig'.fundingRate]_vars

\* C30: whenever the push of a function that writes to the ledger fails (the
\* writer rejects the risk manager, rejects the value, or the ledger call
\* fails), the function is reported as failed to its caller, and no state
\* changes.
C30_FailedPushReported ==
    [][\A op \in PushingOps :
          Called(op) /\ result'.push \notin {NotPushed, NoError} =>
              result'.err # NoError /\ NothingChanges]_vars

\* an ingest that trips the breaker failed because the ledger call failed
C30_Witness ==
    /\ result.op = IngestOp
    /\ result.push = LedgerWriteFailed /\ result.err = LedgerWriteFailed
    /\ ~circuitBreakerActive

----------------------------------------------------------------------------
(* Long and short open interest *)

\* sum of the sizes of the long positions of the traders in S
RECURSIVE SumOfLongs(_)
SumOfLongs(S) ==
    IF S = {} THEN 0
    ELSE LET a == CHOOSE x \in S : TRUE IN
         (IF positions[a].size > 0 THEN positions[a].size ELSE 0) + SumOfLongs(S \ {a})

\* sum of the absolute sizes of the short positions of the traders in S
RECURSIVE SumOfShorts(_)
SumOfShorts(S) ==
    IF S = {} THEN 0
    ELSE LET a == CHOOSE x \in S : TRUE IN
         (IF positions[a].size < 0 THEN -positions[a].size ELSE 0) + SumOfShorts(S \ {a})

\* C36: in every state totalLongOpenInterest is the sum of the sizes of the long
\* positions and totalShortOpenInterest the sum of the absolute sizes of the
\* short positions, and no liquidation, of a long or of a short, increases
\* totalShortOpenInterest.
C36_LongShortTotals ==
    /\ [](/\ totalLongOpenInterest = SumOfLongs(Traders)
          /\ totalShortOpenInterest = SumOfShorts(Traders))
    /\ [][Liquidated => totalShortOpenInterest' <= totalShortOpenInterest]_vars

----------------------------------------------------------------------------
(* Liquidation of unhealthy positions *)

\* the position of the owner a liquidatePosition call names is open and, at the
\* fresh price Pyth holds during the call, its margin plus its signed PnL,
\* floored at zero, is below its maintenance requirement
UnhealthyBefore(r) ==
    LET pos       == positions[Owner(r)]
        markPrice == Rescaled(r.args[2].price, r.args[2].expo)
        pnl       == TruncDiv(pos.size * (markPrice - pos.avgEntryPrice), pos.avgEntryPrice)
        notional  == (Abs(pos.size) * markPrice) \div PRICE_DECIMALS
        tier      == GetLeverageTier(leverageTiers, notional)
    IN  /\ pos.size # 0
        /\ now - r.args[2].publishTime \in 0..MAX_PRICE_STALENESS
        /\ FlooredAtZero(pos.margin + pnl) < (notional * tier.maintenanceMargin) \div BASIS_POINTS

\* C32: whenever a liquidator calls liquidatePosition on a market that is not
\* paused while the oracle price is fresh and the owner's equity (margin plus
\* PnL, floored at zero) is below the maintenance requirement, be the PnL
\* negative or not, the call succeeds and zeroes the position.
C32_UnhealthyIsLiquidatable ==
    [][(Called(LiquidateOp) /\ LiquidatorOnOpenMarket /\ UnhealthyBefore(result')) =>
         /\ result'.err = NoError
         /\ positions'[Owner(result')] = EmptyPosition
      ]_vars

----------------------------------------------------------------------------
(* The tier table: lookup and order *)

\* the indices of the tiers of the table whose ceiling is at least notional
Sufficient(tiers, notional) ==
    {i \in 1..Len(tiers) : tiers[i].maxPositionSize >= notional}

\* the ceilings of the table do not decrease from tier to tier
Ascending(tiers) ==
    \A i \in 1..(Len(tiers) - 1) : tiers[i].maxPositionSize <= tiers[i + 1].maxPositionSize

\* C33: the tier lookup returns the first tier, in table order, whose ceiling is
\* at least the notional, and the last tier when the notional is above every
\* ceiling; on an ascending table no tier with a sufficient ceiling has a
\* smaller ceiling than the tier returned.
C33_FirstSufficientTier ==
    [][Called("_getLeverageTier") =>
         LET enough == Sufficient(leverageTiers, result'.args) IN
         /\ result'.err = NoError
         /\ enough = {} => result'.ret = leverageTiers[Len(leverageTiers)]
         /\ enough # {} =>
               \E i \in enough :
                   /\ result'.ret = leverageTiers[i]
                   /\ \A j \in enough : i <= j
                   /\ Ascending(leverageTiers) =>
                         \A j \in enough :
                             leverageTiers[i].maxPositionSize <= leverageTiers[j].maxPositionSize
      ]_vars

\* C33 witness: a lookup of a notional that is exactly the ceiling of the first
\* of several tiers has just returned that tier
C33_Witness ==
    /\ result.op = "_getLeverageTier" /\ result.err = NoError
    /\ Len(leverageTiers) > 1
    /\ result.args = leverageTiers[1].maxPositionSize
    /\ result.ret = leverageTiers[1]

\* C34: in every state the ceilings of the tier table are in ascending order.
C34_TableAscending == Ascending(leverageTiers)

----------------------------------------------------------------------------
(* The tier table under earnings mode *)

----------------------------------------------------------------------------
(* Normalization *)

\* n, in the normalized scale, has the value of raw at source exponent e: the
\* same value when the source has no more decimal places than the normalized
\* scale, and otherwise the value with the surplus decimal places cut off
SameValue(n, raw, e) ==
    IF e >= TARGET_EXPO THEN n = raw * Pow10(e - TARGET_EXPO)
    ELSE LET unit == Pow10(TARGET_EXPO - e) IN
         /\ Abs(n) * unit <= Abs(raw)
         /\ Abs(raw) < (Abs(n) + 1) * unit
         /\ n # 0 => (n > 0) = (raw > 0)

\* C35: the normalized price has the value of the raw price, exactly when the
\* source exponent is at least that of the normalized scale and truncated to the
\* normalized scale otherwise, and the confidence is normalized by the same rule.
C35_NormalizationPreservesValue ==
    [][(Called("getGMEPrice") /\ result'.err = NoError) =>
         /\ SameValue(result'.ret[1], result'.args.price, result'.args.expo)
         /\ SameValue(result'.ret[2], result'.args.conf, result'.args.expo)
      ]_vars

\* C35 witness: getGMEPrice has just returned a negative price and a confidence
\* that came with one decimal place more than the normalized scale, both cut
\* off toward zero
C35_Witness ==
    /\ result.op = "getGMEPrice" /\ result.err = NoError
    /\ result.args.expo = TARGET_EXPO - 1
    /\ result.args.price = -1005 /\ result.ret[1] = -100
    /\ result.args.conf = 15 /\ result.ret[2] = 1

----------------------------------------------------------------------------
(* Recovery of the circuit breaker *)

\* the step is a call of resetCircuitBreaker by the admin while the breaker is
\* active and at least the cool-down has passed since the activation
ResetWhenDue ==
    /\ Called(ResetOp) /\ result'.caller = admin
    /\ circuitBreakerActive
    /\ now >= lastCircuitBreakerTimestamp + COOL_DOWN

\* the step is the first call after a successful reset, and it is an ingest of a
\* fresh price by the keeper with the fee paid
IngestAfterReset ==
    /\ result.op = ResetOp /\ result.err = NoError
    /\ Called(IngestOp) /\ result'.caller = keeper

\* C40: whatever happened since the activation, a call of resetCircuitBreaker by
\* the admin while the breaker is active and at least the cool-down has passed
\* since the activation gets as far as the ledger write, and when that write
\* succeeds the call succeeds and leaves the breaker inactive and the market
\* unpaused; the keeper's ingest that follows the reset is accepted.
C40_BreakerRecoverable ==
    [][/\ ResetWhenDue =>
             /\ result'.push # NotPushed
             /\ result'.push = NoError =>
                   /\ result'.err = NoError
                   /\ ~circuitBreakerActive'
                   /\ ~marketConfig'.isPaused
       /\ IngestAfterReset => result'.err = NoError
      ]_vars

----------------------------------------------------------------------------
(* Failed calls *)

\* C31: a call of a function that changes state and fails, with whatever error
\* (an ingest that fails on the fee, on a stale price or on the active breaker
\* and a function whose ledger push fails included), leaves the price history,
\* the breaker, the market config, the tier table, the positions and the
\* open-interest totals, and every other variable of the three contracts, as
\* they were before the call.
C31_NoPartialWrites ==
    [][(now' = now /\ result'.err # NoError) => NothingChanges]_vars

\* C31 witness: with points stored, a position open, the tier table replaced and
\* the market paused by the active breaker, the keeper's ingest has just been
\* rejected because the breaker is active
C31_Witness ==
    /\ result.op = IngestOp /\ result.err = CircuitBreakerActive
    /\ Len(priceHistory) > 0
    /\ positions["alice"].size # 0
    /\ leverageTiers = StrictTiers
    /\ circuitBreakerActive /\ marketConfig.isPaused

====
